---- MODULE Spec2Model ----
(***************************************************************************)
(* temporal_utils: the contract validator (validation.py).  A validator    *)
(* object selects the marked function members of a class, runs every       *)
(* _validate_* rule on each and raises one error carrying all violations.  *)
(* The collector (collectors.py) walks a module and its submodules for     *)
(* their classes, and the bulk validator validates each class it found.    *)
(* Around them: the heartbeat wrapper (decorators.py), the client manager  *)
(* (instances.py) and the worker runner (worker.py), each a specification  *)
(* of its own over the same variables.                                     *)
(***************************************************************************)
EXTENDS Integers, Sequences, FiniteSets, TLC

VARIABLES validator, submitted, outcome, pc

\* the module graph walked, the collector's locals and call stack, the
\* modules whose members it went through (in order), its position, the
\* result of the bulk validation, and the lists the collector returned
VARIABLES graph, all_classes, visited_modules, stack, entered, cpc, bulk, returned

\* the object whose activity methods are asked for and the answer (probe),
\* the wrapper of auto_heartbeater and its heartbeat task (hb), the client
\* manager and its callers (mgr), the worker runner and its event loop (wrk)
VARIABLES probe, hb, mgr, wrk

collector_vars == <<graph, all_classes, visited_modules, stack, entered, cpc, bulk, returned>>

glue_vars == <<probe, hb, mgr, wrk>>

vars == <<validator, submitted, outcome, pc, graph, all_classes, visited_modules, stack,
          entered, cpc, bulk, returned, probe, hb, mgr, wrk>>

(***************************************************************************)
(* Bounds of the inputs.                                                   *)
(***************************************************************************)
\* most parameters a method signature has (the receiver included)
MaxParams == 3
\* most entries an opts_<method> dict of the exhaustive family holds
MaxOptEntries == 2
\* most members the root module of a module graph has
MaxMembers == 2
\* most calls of the collector on one module graph
MaxCalls == 2
\* most heartbeats a heartbeat task emits, and most cancellations of the
\* task that runs the wrapper of auto_heartbeater
MaxBeats == 2
MaxCancels == 2
\* the concurrent calls of get_client
NumCallers == 3
\* most awaits the exit of the worker's context goes through
MaxExitAwaits == 2

(***************************************************************************)
(* Names.  A class name is a sequence of characters, so that lower() and   *)
(* the substring test of _collect_methods_to_validate are computed.        *)
(***************************************************************************)
LowerChar(c) ==
    CASE c = "A" -> "a"
      [] c = "B" -> "b"
      [] c = "E" -> "e"
      [] c = "M" -> "m"
      [] c = "S" -> "s"
      [] OTHER -> c

Lower(s) == [i \in DOMAIN s |-> LowerChar(s[i])]

\* Python's `needle in hay` on strings
Contains(needle, hay) ==
    \E i \in 1..(Len(hay) - Len(needle) + 1) :
        SubSeq(hay, i, i + Len(needle) - 1) = needle

BaseToken == <<"b", "a", "s", "e">>

NoName == <<>>

\* "Acts", "BaseActs", "MyBASE", "B_ase"
ClassNames ==
    { <<"A", "c", "t", "s">>,
      <<"B", "a", "s", "e", "A", "c", "t", "s">>,
      <<"M", "y", "B", "A", "S", "E">>,
      <<"B", "_", "a", "s", "e">> }

PlainName == <<"A", "c", "t", "s">>

(***************************************************************************)
(* Markers set by the Temporal decorators, and the opts keys.              *)
(***************************************************************************)
TEMPORAL_ACTIVITY_DEFINITION_SEARCH_ATTRIBUTE == "__temporal_activity_definition"

WorkflowRunSearchAttribute == "__temporal_workflow_run"

Markers == {TEMPORAL_ACTIVITY_DEFINITION_SEARCH_ATTRIBUTE, WorkflowRunSearchAttribute}

ActivityOptsKeys == <<"start_to_close_timeout", "retry_policy">>

WorkflowOptsKeys == <<"execution_timeout", "run_timeout">>

OptKeys == {"start_to_close_timeout", "retry_policy", "execution_timeout", "run_timeout"}

SeqRange(s) == {s[i] : i \in DOMAIN s}

(***************************************************************************)
(* Annotations.  NoAnnotation stands for a parameter or a return value     *)
(* that is written without a type hint; the others are sample types:       *)
(*   "None"           the annotation None (a falsy annotation)            *)
(*   "str"            a type outside the pydantic model family             *)
(*   "Dataclass"      a plain dataclass                                    *)
(*   "Model"          a child of pydantic.BaseModel                        *)
(*   "ModelDataclass" a child of BaseModel that is also a dataclass        *)
(***************************************************************************)
NoAnnotation == "<no annotation>"

Annotations == {NoAnnotation, "None", "str", "Dataclass", "Model", "ModelDataclass"}

\* a variant that reads the annotation as getfullargspec().annotations.get() does
AnnotationOrNone(a) == IF a = NoAnnotation THEN "None" ELSE a

\* inspect.signature(fn).parameters[...].annotation: an unannotated parameter
\* carries the class inspect._empty
SignatureAnnotation(a) == IF a = NoAnnotation THEN "inspect._empty" ELSE a

\* inspect.getfullargspec(fn).annotations.get("return"): None when absent
ReturnAnnotation(a) == IF a = NoAnnotation THEN "None" ELSE a

\* bool(value): None is falsy, every class (inspect._empty too) is truthy
Truthy(v) == v # "None"

\* hasattr(value, "__pydantic_fields_set__")
HasPydanticFieldsSet(v) == v \in {"Model", "ModelDataclass"}

\* dataclasses.is_dataclass(value)
IsDataclass(v) == v \in {"Dataclass", "ModelDataclass"}

(***************************************************************************)
(* Methods and classes.  A method is a function member of the class        *)
(* (inspect.isfunction): params are the declared annotations of all the    *)
(* signature's parameters in order, receiver tells whether the first       *)
(* one is the receiver (self) or the function takes none (a staticmethod). *)
(***************************************************************************)
MethodNamesSorted == <<"act", "run">>

MethodNames == SeqRange(MethodNamesSorted)

ParamList(n, a) == [i \in 1..n |-> IF i = 2 THEN a ELSE NoAnnotation]

Method(p, r, t, k) == [params |-> p, receiver |-> r, returns |-> t, markers |-> k]

\* parameters a caller supplies: all but the receiver
CallerSupplied(method) ==
    Len(method.params) - (IF method.receiver THEN 1 ELSE 0)

\* _generate_opts_name
GenerateOptsName(method_name) == <<"opts_", method_name>>

\* a class attribute value that is a dict: the keys it holds, and those of
\* them that map to None
Dict(present, none) == [kind |-> "dict", present |-> present, none |-> none]

\* a class attribute value that is no dict
NotADict == [kind |-> "other", present |-> {}, none |-> {}]

EmptyFn == <<>>

Class(name, methods, attrs) == [name |-> name, methods |-> methods, attrs |-> attrs]

(***************************************************************************)
(* Validators.  attrs is what dir(self) lists, search_attribute and        *)
(* opts_keys are what get_search_attribute() and                           *)
(* get_opts_keys_that_must_be_set() return (NotImplemented: the base       *)
(* class's method, which raises), has_dunder_name tells whether            *)
(* self.__name__ exists (it does on a class object, not on an instance).   *)
(***************************************************************************)
NotImplemented == "<raises NotImplementedError>"

\* dir() lists attribute names in sorted order
DirSorted ==
    << "_collect_methods_to_validate",
       "_generate_opts_name",
       "_throw_if_annotation_is_dataclass_or_not_child_of_basemodel",
       "_validate_method_has_a_default_opts",
       "_validate_method_input_arg_is_pydantic_serializable",
       "_validate_method_output_is_pydantic_serializable",
       "_validate_method_takes_a_single_arg",
       "_validate_my_new_requirement",
       "get_opts_keys_that_must_be_set",
       "get_search_attribute",
       "run_validators" >>

\* method_name.startswith("_validate_")
StartsWithValidationFnPrefix(n) ==
    n \in { "_validate_method_has_a_default_opts",
            "_validate_method_input_arg_is_pydantic_serializable",
            "_validate_method_output_is_pydantic_serializable",
            "_validate_method_takes_a_single_arg",
            "_validate_my_new_requirement" }

\* the attributes of _BaseValidator: a custom rule is a subclass's
BaseValidatorAttrs == SeqRange(DirSorted) \ {"_validate_my_new_requirement"}

BaseValidator ==
    [ name |-> "_BaseValidator",
      attrs |-> BaseValidatorAttrs,
      search_attribute |-> NotImplemented,
      opts_keys_implemented |-> FALSE,
      opts_keys |-> <<>>,
      has_dunder_name |-> FALSE ]

TemporalActivityValidators ==
    [ name |-> "TemporalActivityValidators",
      attrs |-> BaseValidatorAttrs,
      search_attribute |-> TEMPORAL_ACTIVITY_DEFINITION_SEARCH_ATTRIBUTE,
      opts_keys_implemented |-> TRUE,
      opts_keys |-> ActivityOptsKeys,
      has_dunder_name |-> FALSE ]

\* a variant of the workflow validator that lost the output rule
WorkflowValidatorsWithoutOutputRule ==
    [ name |-> "TemporalWorkflowValidators",
      attrs |-> BaseValidatorAttrs \ {"_validate_method_output_is_pydantic_serializable"},
      search_attribute |-> WorkflowRunSearchAttribute,
      opts_keys_implemented |-> TRUE,
      opts_keys |-> WorkflowOptsKeys,
      has_dunder_name |-> FALSE ]

TemporalWorkflowValidators ==
    [ name |-> "TemporalWorkflowValidators",
      attrs |-> BaseValidatorAttrs,
      search_attribute |-> WorkflowRunSearchAttribute,
      opts_keys_implemented |-> TRUE,
      opts_keys |-> WorkflowOptsKeys,
      has_dunder_name |-> FALSE ]

\* a subclass of _BaseValidator that overrides get_search_attribute only
SearchOnlyValidator ==
    [ name |-> "SearchOnlyValidator",
      attrs |-> BaseValidatorAttrs,
      search_attribute |-> TEMPORAL_ACTIVITY_DEFINITION_SEARCH_ATTRIBUTE,
      opts_keys_implemented |-> FALSE,
      opts_keys |-> <<>>,
      has_dunder_name |-> FALSE ]

\* an object with run_validators and no _validate_* attribute: an instance
\* (no __name__) or a class object passed as self (with __name__)
NoRulesValidator(has_name) ==
    [ name |-> "NoRulesValidator",
      attrs |-> {"_collect_methods_to_validate", "get_search_attribute", "run_validators"},
      search_attribute |-> TEMPORAL_ACTIVITY_DEFINITION_SEARCH_ATTRIBUTE,
      opts_keys_implemented |-> FALSE,
      opts_keys |-> <<>>,
      has_dunder_name |-> has_name ]

\* a subclass of TemporalActivityValidators with one more rule, written as
\* a plain method or under @staticmethod, with num_params parameters (the
\* existing rules have four: self, class_to_validate, method_name,
\* method_type); the rule rejects the methods named in rejects
CustomActivityValidator(static, num_params, rejects) ==
    [ name |-> "CustomActivityValidator",
      attrs |-> BaseValidatorAttrs \cup {"_validate_my_new_requirement"},
      search_attribute |-> TEMPORAL_ACTIVITY_DEFINITION_SEARCH_ATTRIBUTE,
      opts_keys_implemented |-> TRUE,
      opts_keys |-> ActivityOptsKeys,
      has_dunder_name |-> FALSE,
      custom |-> [static |-> static, num_params |-> num_params, rejects |-> rejects] ]

CustomValidators ==
    { CustomActivityValidator(static, num_params, rejects) :
        <<static, num_params, rejects>> \in BOOLEAN \X {3, 4} \X SUBSET MethodNames }

BuiltinValidators == {TemporalActivityValidators, TemporalWorkflowValidators}

AllValidators ==
    BuiltinValidators
        \cup {BaseValidator, SearchOnlyValidator}
        \cup {NoRulesValidator(b) : b \in BOOLEAN}

(***************************************************************************)
(* Messages and results.  A message is the text the code formats, kept     *)
(* as its parts: the fixed wording, the class name and the method name     *)
(* where the wording has them, other interpolated values, and the          *)
(* "|Reported via <validator class>.<rule>()" suffix run_validators adds.  *)
(***************************************************************************)
Msg(text, cls_name, method_name, detail) ==
    [ text |-> text, cls |-> cls_name, method |-> method_name, detail |-> detail,
      via_class |-> "", via_rule |-> "" ]

NoMsg == Msg("", NoName, "", <<>>)

NoException == "<none>"

\* what a rule gives back: the list it returns, or the exception it raises
Returns(errors) == [raised |-> NoException, errors |-> errors]

Raises(exc) == [raised |-> exc, errors |-> <<>>]

\* TemporalUtilsValidationError.__init__
TemporalUtilsValidationError(message, error_msgs) ==
    [ raised |-> "TemporalUtilsValidationError",
      message |-> message,
      error_msgs |-> IF error_msgs = <<>> THEN <<message>> ELSE error_msgs ]

OtherException(exc) == [raised |-> exc, message |-> NoMsg, error_msgs |-> <<>>]

ReturnedNone == [raised |-> NoException, message |-> NoMsg, error_msgs |-> <<>>]

NotRun == [raised |-> "<not run>", message |-> NoMsg, error_msgs |-> <<>>]

(***************************************************************************)
(* The rules.  Each takes the validator (self), the class, and the name    *)
(* of one of its function members.                                         *)
(***************************************************************************)
\* a variant that checks that the required keys are there, not their values
DefaultOptsWithoutNoneCheck(self, class_to_validate, method_name) ==
    LET opts_name == GenerateOptsName(method_name)
    IN  IF opts_name \notin DOMAIN class_to_validate.attrs
        THEN Returns(<< Msg("created Temporal activity without providing default options for executing it",
                            class_to_validate.name, method_name, <<>>) >>)
        ELSE LET opts == class_to_validate.attrs[opts_name]
             IN  IF opts.kind # "dict"
                 THEN Returns(<< Msg("created Temporal activity with invalid execution options: should be a dict",
                                     class_to_validate.name, method_name, <<>>) >>)
                 ELSE IF ~self.opts_keys_implemented
                 THEN Raises("NotImplementedError")
                 ELSE IF ~(\A i \in DOMAIN self.opts_keys : self.opts_keys[i] \in opts.present)
                 THEN Returns(<< Msg("created Temporal activity without setting all required execution options",
                                     class_to_validate.name, method_name, self.opts_keys) >>)
                 ELSE Returns(<<>>)

_validate_method_has_a_default_opts(self, class_to_validate, method_name) ==
    LET opts_name == GenerateOptsName(method_name)
    IN  IF opts_name \notin DOMAIN class_to_validate.attrs
        THEN \* getattr raised AttributeError
             Returns(<< Msg("created Temporal activity without providing default options for executing it",
                            class_to_validate.name, method_name, <<>>) >>)
        ELSE LET opts == class_to_validate.attrs[opts_name]
             IN  IF opts.kind # "dict"
                 THEN Returns(<< Msg("created Temporal activity with invalid execution options: should be a dict",
                                     class_to_validate.name, method_name, <<>>) >>)
                 ELSE IF ~self.opts_keys_implemented
                 THEN Raises("NotImplementedError")
                 ELSE IF ~(\A i \in DOMAIN self.opts_keys :
                              /\ self.opts_keys[i] \in opts.present
                              /\ self.opts_keys[i] \notin opts.none)
                 THEN Returns(<< Msg("created Temporal activity without setting all required execution options",
                                     class_to_validate.name, method_name, self.opts_keys) >>)
                 ELSE Returns(<<>>)

\* a variant that forgets the receiver in the count
SingleArgCountingWithoutReceiver(self, class_to_validate, method_name) ==
    LET num_params == Len(class_to_validate.methods[method_name].params)
    IN  IF num_params = 0
        THEN Returns(<< Msg("No input defined: should take a single argument (not including self)",
                            NoName, method_name, <<>>) >>)
        ELSE IF num_params > 1
        THEN Returns(<< Msg("Too many arguments defined: should take a single argument (not including self)",
                            NoName, method_name, <<>>) >>)
        ELSE Returns(<<>>)

_validate_method_takes_a_single_arg(self, class_to_validate, method_name) ==
    LET method_type == class_to_validate.methods[method_name]
        num_params == Len(method_type.params)
    IN  IF num_params <= 1
        THEN Returns(<< Msg("No input defined: should take a single argument (not including self)",
                            NoName, method_name, <<>>) >>)
        ELSE IF num_params > 2
        THEN Returns(<< Msg("Too many arguments defined: should take a single argument (not including self)",
                            NoName, method_name, <<>>) >>)
        ELSE Returns(<<>>)

\* a variant without the dataclass test
ThrowIfNotChildOfBasemodel(annotation_from_inspect) ==
    IF ~Truthy(annotation_from_inspect) THEN "None"
    ELSE IF ~HasPydanticFieldsSet(annotation_from_inspect) THEN "False"
    ELSE "True"

\* "None", "False" or "True": the three values the helper returns
_throw_if_annotation_is_dataclass_or_not_child_of_basemodel(annotation_from_inspect) ==
    IF ~Truthy(annotation_from_inspect) THEN "None"
    ELSE IF ~HasPydanticFieldsSet(annotation_from_inspect) THEN "False"
    ELSE IF IsDataclass(annotation_from_inspect) THEN "False"
    ELSE "True"

_validate_method_input_arg_is_pydantic_serializable(self, class_to_validate, method_name) ==
    LET method_type == class_to_validate.methods[method_name]
        params == method_type.params
    IN  IF Len(params) < 2
        THEN \* list(params.items())[1] raised IndexError
             Returns(<< Msg("No input defined: should take a single arg inherited from pydantic's basemodel",
                            NoName, method_name, <<>>) >>)
        ELSE LET is_pydantic ==
                     _throw_if_annotation_is_dataclass_or_not_child_of_basemodel(
                         SignatureAnnotation(params[2]))
             IN  IF is_pydantic = "None"
                 THEN Returns(<< Msg("requires a type hint for its input argument",
                                     NoName, method_name, <<>>) >>)
                 ELSE IF is_pydantic = "False"
                 THEN Returns(<< Msg("input argument can't be a dataclass & must be a child of pydantic's BaseModel",
                                     NoName, method_name, <<>>) >>)
                 ELSE Returns(<<>>)

\* a variant that lets a missing return annotation pass
OutputSerializableWhenAnnotated(self, class_to_validate, method_name) ==
    LET method_type == class_to_validate.methods[method_name]
        return_annotation == ReturnAnnotation(method_type.returns)
        is_pydantic ==
            _throw_if_annotation_is_dataclass_or_not_child_of_basemodel(return_annotation)
    IN  IF is_pydantic = "False"
        THEN Returns(<< Msg("return value can't be a dataclass and must be a child of pydantic's BaseModel",
                            NoName, method_name, <<>>) >>)
        ELSE Returns(<<>>)

_validate_method_output_is_pydantic_serializable(self, class_to_validate, method_name) ==
    LET method_type == class_to_validate.methods[method_name]
        return_annotation == ReturnAnnotation(method_type.returns)
        is_pydantic ==
            _throw_if_annotation_is_dataclass_or_not_child_of_basemodel(return_annotation)
    IN  IF is_pydantic = "None"
        THEN Returns(<< Msg("does not have a type hint for its return value",
                            NoName, method_name, <<>>) >>)
        ELSE IF is_pydantic = "False"
        THEN Returns(<< Msg("return value can't be a dataclass and must be a child of pydantic's BaseModel",
                            NoName, method_name, <<>>) >>)
        ELSE Returns(<<>>)

\* the rule of a custom validator, called with three arguments: getattr
\* binds self to a plain method and does not to a static one
_validate_my_new_requirement(self, class_to_validate, method_name) ==
    LET args_received == IF self.custom.static THEN 3 ELSE 4
    IN  IF args_received # self.custom.num_params
        THEN Raises("TypeError")
        ELSE IF method_name \in self.custom.rejects
        THEN Returns(<< Msg("does not meet my new requirement", NoName, method_name, <<>>) >>)
        ELSE Returns(<<>>)

\* getattr(self, method_name)(class_to_validate, method_name, method_type)
CallValidator(rule, self, class_to_validate, method_name) ==
    CASE rule = "_validate_method_has_a_default_opts" ->
             _validate_method_has_a_default_opts(self, class_to_validate, method_name)
      [] rule = "_validate_method_input_arg_is_pydantic_serializable" ->
             _validate_method_input_arg_is_pydantic_serializable(self, class_to_validate, method_name)
      [] rule = "_validate_method_output_is_pydantic_serializable" ->
             _validate_method_output_is_pydantic_serializable(self, class_to_validate, method_name)
      [] rule = "_validate_method_takes_a_single_arg" ->
             _validate_method_takes_a_single_arg(self, class_to_validate, method_name)
      [] rule = "_validate_my_new_requirement" ->
             _validate_my_new_requirement(self, class_to_validate, method_name)

(***************************************************************************)
(* run_validators and _collect_methods_to_validate.                        *)
(***************************************************************************)
\* the _validate_* attributes of self, in dir() order
Validators(self) ==
    SelectSeq(DirSorted, LAMBDA n : n \in self.attrs /\ StartsWithValidationFnPrefix(n))

\* inspect.getmembers(cls, isfunction): the function members' names, sorted
GetMembers(class_to_validate) ==
    SelectSeq(MethodNamesSorted, LAMBDA m : m \in DOMAIN class_to_validate.methods)

\* hasattr(fn, search_attribute)
HasAttr(class_to_validate, method_name, search_attribute) ==
    search_attribute \in class_to_validate.methods[method_name].markers

\* a variant that looks for the token without lower-casing the name
CollectWithCaseSensitiveToken(self, class_to_validate) ==
    IF self.search_attribute = NotImplemented
    THEN [raised |-> "NotImplementedError", fns |-> <<>>, message |-> NoMsg]
    ELSE LET search_attribute == self.search_attribute
             fns_requiring_validation ==
                 SelectSeq(GetMembers(class_to_validate),
                           LAMBDA m : HasAttr(class_to_validate, m, search_attribute))
         IN  IF /\ fns_requiring_validation = <<>>
                /\ ~Contains(BaseToken, class_to_validate.name)
             THEN [ raised |-> "TemporalUtilsValidationError", fns |-> <<>>,
                    message |-> Msg("does not have any methods annotated with the search attribute",
                                    class_to_validate.name, "", <<search_attribute>>) ]
             ELSE [raised |-> NoException, fns |-> fns_requiring_validation, message |-> NoMsg]

\* a variant that reports the missing search attribute as a validation error
CollectReportingMissingSearchAttribute(self, class_to_validate) ==
    IF self.search_attribute = NotImplemented
    THEN [ raised |-> "TemporalUtilsValidationError", fns |-> <<>>,
           message |-> Msg("does not have any methods annotated with the search attribute",
                           class_to_validate.name, "", <<>>) ]
    ELSE LET search_attribute == self.search_attribute
             fns_requiring_validation ==
                 SelectSeq(GetMembers(class_to_validate),
                           LAMBDA m : HasAttr(class_to_validate, m, search_attribute))
         IN  IF /\ fns_requiring_validation = <<>>
                /\ ~Contains(BaseToken, Lower(class_to_validate.name))
             THEN [ raised |-> "TemporalUtilsValidationError", fns |-> <<>>,
                    message |-> Msg("does not have any methods annotated with the search attribute",
                                    class_to_validate.name, "", <<search_attribute>>) ]
             ELSE [raised |-> NoException, fns |-> fns_requiring_validation, message |-> NoMsg]

\* the names of the functions to validate, or the exception raised
_collect_methods_to_validate(self, class_to_validate) ==
    IF self.search_attribute = NotImplemented
    THEN [raised |-> "NotImplementedError", fns |-> <<>>, message |-> NoMsg]
    ELSE LET search_attribute == self.search_attribute
             fns_requiring_validation ==
                 SelectSeq(GetMembers(class_to_validate),
                           LAMBDA m : HasAttr(class_to_validate, m, search_attribute))
         IN  IF /\ fns_requiring_validation = <<>>
                /\ ~Contains(BaseToken, Lower(class_to_validate.name))
             THEN [ raised |-> "TemporalUtilsValidationError", fns |-> <<>>,
                    message |-> Msg("does not have any methods annotated with the search attribute",
                                    class_to_validate.name, "", <<search_attribute>>) ]
             ELSE [raised |-> NoException, fns |-> fns_requiring_validation, message |-> NoMsg]

\* a variant that names the validator class and leaves the rule out
AddContextWithoutRule(errors, self, rule) ==
    [i \in DOMAIN errors |-> [errors[i] EXCEPT !.via_class = self.name]]

\* f"{e} |Reported via {self.__class__.__name__}.{validator.__name__}()"
AddContext(errors, self, rule) ==
    [i \in DOMAIN errors |-> [errors[i] EXCEPT !.via_class = self.name, !.via_rule = rule]]

\* the inner loop of run_validators: every validator on one method
RECURSIVE RunValidatorsOnMethod(_, _, _, _)
RunValidatorsOnMethod(self, class_to_validate, method_name, validators) ==
    IF validators = <<>> THEN Returns(<<>>)
    ELSE LET validator_errors ==
                 CallValidator(Head(validators), self, class_to_validate, method_name)
         IN  IF validator_errors.raised # NoException
             THEN Raises(validator_errors.raised)
             ELSE LET rest == RunValidatorsOnMethod(self, class_to_validate, method_name,
                                                    Tail(validators))
                  IN  IF rest.raised # NoException
                      THEN Raises(rest.raised)
                      ELSE Returns(AddContext(validator_errors.errors, self, Head(validators))
                                       \o rest.errors)

\* a variant that leaves the loop after the first collected method
RunValidatorsOnFirstMethodOnly(self, class_to_validate, method_names, validators) ==
    IF method_names = <<>> THEN Returns(<<>>)
    ELSE RunValidatorsOnMethod(self, class_to_validate, Head(method_names), validators)

\* the sequences of a sequence, joined in order
RECURSIVE Flatten(_)
Flatten(seqs) == IF seqs = <<>> THEN <<>> ELSE Head(seqs) \o Flatten(Tail(seqs))

\* a variant with the two loops exchanged: every method under each validator
RunValidatorsRuleByRule(self, class_to_validate, method_names, validators) ==
    Returns(Flatten([i \in DOMAIN validators |->
                Flatten([j \in DOMAIN method_names |->
                    AddContext(CallValidator(validators[i], self, class_to_validate,
                                             method_names[j]).errors,
                               self, validators[i])])]))

\* the outer loop of run_validators: every collected method
RECURSIVE RunValidatorsOnMethods(_, _, _, _)
RunValidatorsOnMethods(self, class_to_validate, method_names, validators) ==
    IF method_names = <<>> THEN Returns(<<>>)
    ELSE LET first == RunValidatorsOnMethod(self, class_to_validate, Head(method_names),
                                            validators)
         IN  IF first.raised # NoException
             THEN Raises(first.raised)
             ELSE LET rest == RunValidatorsOnMethods(self, class_to_validate,
                                                     Tail(method_names), validators)
                  IN  IF rest.raised # NoException
                      THEN Raises(rest.raised)
                      ELSE Returns(first.errors \o rest.errors)

\* the class of what was submitted: itself, or its __class__ when an instance
ClassToValidate(obj) == IF obj.is_type THEN obj.cls ELSE obj.dunder_class

run_validators(self, obj) ==
    LET class_to_validate == ClassToValidate(obj)
        validators == Validators(self)
    IN  IF validators = <<>>
        THEN \* the message reads self.__name__
             IF self.has_dunder_name
             THEN TemporalUtilsValidationError(
                      Msg("No validators found", NoName, "", <<self.name>>), <<>>)
             ELSE OtherException("AttributeError")
        ELSE LET collected == _collect_methods_to_validate(self, class_to_validate)
             IN  IF collected.raised = "TemporalUtilsValidationError"
                 THEN TemporalUtilsValidationError(collected.message, <<>>)
                 ELSE IF collected.raised # NoException
                 THEN OtherException(collected.raised)
                 ELSE LET run == RunValidatorsOnMethods(self, class_to_validate,
                                                        collected.fns, validators)
                      IN  IF run.raised # NoException
                          THEN OtherException(run.raised)
                          ELSE IF run.errors # <<>>
                          THEN TemporalUtilsValidationError(
                                   Msg("Validation Errors found in class",
                                       class_to_validate.name, "", <<>>),
                                   run.errors)
                          ELSE ReturnedNone

(***************************************************************************)
(* The inputs: the classes and validators the specification submits.       *)
(***************************************************************************)
\* in a class body, what is written for one method name: the def (or none)
\* and the opts_<name> attribute (or none)
NoAttr == [kind |-> "absent", present |-> {}, none |-> {}]

Decl(method, opts) == [has |-> TRUE, method |-> method, opts |-> opts]

NoDecl == [has |-> FALSE, method |-> Method(<<>>, FALSE, NoAnnotation, {}), opts |-> NoAttr]

ClassOf(name, decls) ==
    Class(name,
          [m \in {x \in DOMAIN decls : decls[x].has} |-> decls[m].method],
          [n \in {GenerateOptsName(x) : x \in {y \in DOMAIN decls : decls[y].opts.kind # "absent"}}
              |-> decls[n[2]].opts])

TypeObject(cls) == [is_type |-> TRUE, cls |-> cls]

InstanceOf(cls) == [is_type |-> FALSE, dunder_class |-> cls]

\* a dict holding every key of both policies, none of them None
FullDict == Dict(OptKeys, {})

\* every dict of at most MaxOptEntries entries over the policies' keys
SmallDicts ==
    { Dict(present, none) :
        <<present, none>> \in
            { pn \in (SUBSET OptKeys) \X (SUBSET OptKeys) :
                /\ pn[2] \subseteq pn[1]
                /\ Cardinality(pn[1]) <= MaxOptEntries } }

\* the signatures: <<params, receiver>>.  Only the parameters a rule can read
\* carry an annotation: the second one, and the only one of a function
\* that takes no receiver
Signatures ==
    {<<ParamList(n, a), TRUE>> : <<n, a>> \in (1..MaxParams) \X Annotations}
        \cup {<<ParamList(n, a), FALSE>> : <<n, a>> \in (0..MaxParams) \X Annotations}
        \cup {<< <<a>>, FALSE >> : a \in Annotations}

\* one method of every shape, with every opts value
AllDecls ==
    { Decl(Method(sg[1], sg[2], t, k), o) :
        <<sg, t, k, o>> \in
            Signatures \X Annotations
                \X {{}, {TEMPORAL_ACTIVITY_DEFINITION_SEARCH_ATTRIBUTE}, {WorkflowRunSearchAttribute}}
                \X (SmallDicts \cup {NoAttr, NotADict}) }

\* the methods of the two-method classes: instance methods of every input
\* annotation, with or without a complete opts dict
PairDecls ==
    { Decl(Method(p, TRUE, t, k), o) :
        <<p, t, k, o>> \in
            ({ParamList(1, NoAnnotation), ParamList(MaxParams, "Model")}
                    \cup {ParamList(2, a) : a \in Annotations})
                \X {"Model", NoAnnotation}
                \X {{}, {TEMPORAL_ACTIVITY_DEFINITION_SEARCH_ATTRIBUTE}, {WorkflowRunSearchAttribute}}
                \X {NoAttr, FullDict} }
        \cup {NoDecl}

GoodMethod(k) == Method(ParamList(2, "Model"), TRUE, "Model", k)

\* the classes submitted under every name to every validator
SmallClassDecls ==
    { [m \in MethodNames |-> NoDecl],
      [m \in MethodNames |->
          IF m = "act"
          THEN Decl(GoodMethod({TEMPORAL_ACTIVITY_DEFINITION_SEARCH_ATTRIBUTE}), FullDict)
          ELSE NoDecl],
      [m \in MethodNames |->
          IF m = "run" THEN Decl(GoodMethod({WorkflowRunSearchAttribute}), FullDict) ELSE NoDecl],
      [m \in MethodNames |-> IF m = "act" THEN Decl(GoodMethod({}), NoAttr) ELSE NoDecl] }

\* a class with one method of any shape, submitted to a built-in validator
InitOneMethod ==
    /\ validator \in BuiltinValidators
    /\ \E d \in AllDecls :
           submitted = TypeObject(ClassOf(PlainName,
                                          [m \in MethodNames |-> IF m = "act" THEN d ELSE NoDecl]))

\* a class with up to two methods, submitted to a built-in validator
InitTwoMethods ==
    /\ validator \in BuiltinValidators
    /\ \E decls \in [MethodNames -> PairDecls] :
           submitted = TypeObject(ClassOf(PlainName, decls))

\* a small class or an instance of it, under any name, submitted to any validator
InitAnyValidator ==
    /\ validator \in AllValidators
    /\ \E name \in ClassNames, decls \in SmallClassDecls, is_type \in BOOLEAN :
           submitted = IF is_type THEN TypeObject(ClassOf(name, decls))
                                  ELSE InstanceOf(ClassOf(name, decls))

\* the longest chain of classes, each the subclass of the one before
MaxAncestry == 3

\* the nearest of the classes of a chain, given by their places: the last, or 0
Nearest(levels) ==
    IF levels = {} THEN 0 ELSE CHOOSE i \in levels : \A j \in levels : j <= i

\* variants of the two lookups that see the class's own body only
OwnDeclsOnly(mro) ==
    [m \in MethodNames |-> mro[Len(mro)].decls[m]]

\* attribute lookup along the chain: what getmembers and getattr find on the
\* last class, a def or an opts_<name> of the nearest class that has one
InheritedDecls(mro) ==
    [m \in MethodNames |->
        LET def_at == Nearest({i \in DOMAIN mro : mro[i].decls[m].has})
            opts_at == Nearest({i \in DOMAIN mro : mro[i].decls[m].opts.kind # "absent"})
        IN  [ has |-> def_at # 0,
              method |-> IF def_at = 0 THEN NoDecl.method ELSE mro[def_at].decls[m].method,
              opts |-> IF opts_at = 0 THEN NoAttr ELSE mro[opts_at].decls[m].opts ]]

\* a class object that has ancestors: the bodies from the first ancestor to itself
SubclassObject(mro) ==
    [is_type |-> TRUE, cls |-> ClassOf(mro[Len(mro)].name, InheritedDecls(mro)), mro |-> mro]

\* what a class body of a chain writes for one method name
ChainDecls ==
    { NoDecl,
      Decl(GoodMethod({TEMPORAL_ACTIVITY_DEFINITION_SEARCH_ATTRIBUTE}), FullDict),
      Decl(Method(ParamList(1, NoAnnotation), TRUE, "Model",
                  {TEMPORAL_ACTIVITY_DEFINITION_SEARCH_ATTRIBUTE}), NoAttr) }

ChainBodies ==
    { [name |-> name, decls |-> decls] :
        <<name, decls>> \in {PlainName, <<"B", "a", "s", "e", "A", "c", "t", "s">>}
                                \X [MethodNames -> ChainDecls] }

\* the class at the end of a chain, validated by the hook at its definition;
\* the first class of the chain has either name, its descendants the plain one
InitSubclass ==
    /\ validator = TemporalActivityValidators
    /\ \E n \in 1..MaxAncestry :
         \E mro \in [1..n -> ChainBodies] :
             /\ \A i \in 2..n : mro[i].name = PlainName
             /\ submitted = SubclassObject(mro)

\* the methods of the classes submitted to a custom validator
CustomDecls ==
    { NoDecl,
      Decl(GoodMethod({TEMPORAL_ACTIVITY_DEFINITION_SEARCH_ATTRIBUTE}), FullDict),
      Decl(GoodMethod({}), NoAttr),
      Decl(Method(ParamList(1, NoAnnotation), TRUE, NoAnnotation,
                  {TEMPORAL_ACTIVITY_DEFINITION_SEARCH_ATTRIBUTE}), NoAttr) }

\* a class with up to two methods, submitted to a validator with a custom rule
InitCustomValidator ==
    /\ validator \in CustomValidators
    /\ \E decls \in [MethodNames -> CustomDecls] :
           submitted = TypeObject(ClassOf(PlainName, decls))

\* no module was given to the collector
\* the value of a variable of a component that a specification leaves out
Unused == "<unused>"

GlueIdle ==
    /\ probe = Unused
    /\ hb = Unused
    /\ mgr = Unused
    /\ wrk = Unused

CollectorIdle ==
    /\ graph = <<>>
    /\ all_classes = <<>>
    /\ visited_modules = {}
    /\ stack = <<>>
    /\ entered = <<>>
    /\ cpc = "idle"
    /\ bulk = NotRun
    /\ returned = <<>>

Init ==
    /\ pc = "ready"
    /\ outcome = NotRun
    /\ CollectorIdle
    /\ GlueIdle
    /\ \/ InitOneMethod
       \/ InitTwoMethods
       \/ InitAnyValidator
       \/ InitCustomValidator
       \/ InitSubclass

\* validator.run_validators(submitted)
RunValidators ==
    /\ pc = "ready"
    /\ outcome' = run_validators(validator, submitted)
    /\ pc' = "done"
    /\ UNCHANGED <<validator, submitted>>
    /\ UNCHANGED <<collector_vars, glue_vars>>

Next == RunValidators

Spec == Init /\ [][Next]_vars

(***************************************************************************)
(* The collector: get_all_classes_from_module_and_submodules.  A module    *)
(* is known by its __name__, a sequence of characters, so that split(".")  *)
(* and startswith() are computed.  A member of a module is a class (its    *)
(* __name__ and __module__), a module, or something else.                  *)
(***************************************************************************)
\* s.startswith(prefix)
StartsWith(s, prefix) ==
    /\ Len(prefix) <= Len(s)
    /\ SubSeq(s, 1, Len(prefix)) = prefix

\* s.split(".")[0]
SplitFirst(s) ==
    LET dots == {i \in DOMAIN s : s[i] = "."}
    IN  IF dots = {} THEN s
        ELSE SubSeq(s, 1, (CHOOSE i \in dots : \A j \in dots : i <= j) - 1)

Foo == <<"f", "o", "o">>

FooA == <<"f", "o", "o", ".", "a">>

Foobar == <<"f", "o", "o", "b", "a", "r">>

Bar == <<"b", "a", "r">>

ModuleNames == {Foo, FooA, Foobar, Bar}

ClassItem(name, module_name) == [kind |-> "class", name |-> name, module |-> module_name]

ModuleItem(module_name) == [kind |-> "module", name |-> "", module |-> module_name]

\* a member that is neither a class nor a module
OtherItem == [kind |-> "other", name |-> "", module |-> <<>>]

\* one class defined in each module
ClassItems == {ClassItem("A", Foo), ClassItem("B", FooA), ClassItem("C", Foobar),
               ClassItem("D", Bar)}

\* every sequence of at most n of the items
SeqsUpTo(items, n) == UNION {[1..k -> items] : k \in 0..n}

\* the members of the root module foo, of its submodule foo.a, and of the
\* module foobar of another package, each in dir() order
RootMembers ==
    SeqsUpTo(ClassItems \cup {ModuleItem(FooA), ModuleItem(Foobar), ModuleItem(Bar)},
             MaxMembers)

SubmoduleMembers ==
    SeqsUpTo({ClassItem("B", FooA), ModuleItem(Foo), ModuleItem(FooA)}, MaxMembers)

OtherPackageMembers ==
    { <<OtherItem>>, <<ClassItem("C", Foobar), ModuleItem(FooA)>> }

Graphs ==
    { [m \in ModuleNames |->
          CASE m = Foo -> g[1]
            [] m = FooA -> g[2]
            [] m = Foobar -> g[3]
            [] OTHER -> <<ClassItem("D", Bar)>>] :
        g \in RootMembers \X SubmoduleMembers \X OtherPackageMembers }

\* the module the collector is called on
RootModule == Foo

\* the frame of _collect_from_module at the top of the stack, and the member
\* its loop is at
Top == stack[Len(stack)]

AtItem == Top.i <= Len(graph[Top.module])

Item == graph[Top.module][Top.i]

\* base_package of the frame at the top
BasePackage == SplitFirst(Top.module)

\* the frame at the top goes on to its next member
NextMember == [stack EXCEPT ![Len(stack)].i = @ + 1]

InitCollect ==
    /\ validator = TemporalActivityValidators
    /\ submitted = TypeObject(Class(NoName, EmptyFn, EmptyFn))
    /\ outcome = NotRun
    /\ pc = "idle"
    /\ graph \in Graphs
    /\ all_classes = <<>>
    /\ visited_modules = {}
    /\ stack = <<>>
    /\ entered = <<>>
    /\ cpc = "ready"
    /\ bulk = NotRun
    /\ returned = <<>>
    /\ GlueIdle

\* _collect_from_module(module): the root is not visited yet
CollectFromRoot ==
    /\ cpc = "ready"
    /\ visited_modules' = visited_modules \cup {RootModule}
    /\ entered' = <<RootModule>>
    /\ stack' = << [module |-> RootModule, i |-> 1] >>
    /\ cpc' = "collecting"
    /\ UNCHANGED <<graph, all_classes, bulk, returned, validator, submitted, outcome, pc,
                   glue_vars>>

\* a variant that takes the classes defined in the current module only
CollectClassDefinedHere ==
    /\ cpc = "collecting"
    /\ AtItem
    /\ Item.kind = "class"
    /\ all_classes' = IF Item.module = Top.module
                      THEN Append(all_classes, Item)
                      ELSE all_classes
    /\ stack' = NextMember
    /\ UNCHANGED <<graph, visited_modules, entered, cpc, bulk, returned,
                   validator, submitted, outcome, pc, glue_vars>>

\* a variant that puts the class in front of those found so far
CollectClassInFront ==
    /\ cpc = "collecting"
    /\ AtItem
    /\ Item.kind = "class"
    /\ all_classes' = IF StartsWith(Item.module, BasePackage)
                      THEN <<Item>> \o all_classes
                      ELSE all_classes
    /\ stack' = NextMember
    /\ UNCHANGED <<graph, visited_modules, entered, cpc, bulk, returned,
                   validator, submitted, outcome, pc, glue_vars>>

\* the member is a class: appended when its __module__ starts with base_package
CollectClass ==
    /\ cpc = "collecting"
    /\ AtItem
    /\ Item.kind = "class"
    /\ all_classes' = IF StartsWith(Item.module, BasePackage)
                      THEN Append(all_classes, Item)
                      ELSE all_classes
    /\ stack' = NextMember
    /\ UNCHANGED <<graph, visited_modules, entered, cpc, bulk, returned,
                   validator, submitted, outcome, pc, glue_vars>>

\* a variant that has no visited set
EnterSubmoduleAgain ==
    /\ cpc = "collecting"
    /\ AtItem
    /\ Item.kind = "module"
    /\ StartsWith(Item.module, BasePackage)
    /\ Len(stack) <= Cardinality(ModuleNames)
    /\ visited_modules' = visited_modules \cup {Item.module}
    /\ entered' = Append(entered, Item.module)
    /\ stack' = Append(NextMember, [module |-> Item.module, i |-> 1])
    /\ UNCHANGED <<graph, all_classes, cpc, bulk, returned, validator, submitted, outcome, pc,
                   glue_vars>>

\* the member is a module of the package that was not visited: the call
\* _collect_from_module(item) marks it visited and starts on its members
EnterSubmodule ==
    /\ cpc = "collecting"
    /\ AtItem
    /\ Item.kind = "module"
    /\ StartsWith(Item.module, BasePackage)
    /\ Item.module \notin visited_modules
    /\ visited_modules' = visited_modules \cup {Item.module}
    /\ entered' = Append(entered, Item.module)
    /\ stack' = Append(NextMember, [module |-> Item.module, i |-> 1])
    /\ UNCHANGED <<graph, all_classes, cpc, bulk, returned, validator, submitted, outcome, pc,
                   glue_vars>>

\* the member is a module of the package that was visited: the call returns
\* at once
ReturnAtVisited ==
    /\ cpc = "collecting"
    /\ AtItem
    /\ Item.kind = "module"
    /\ StartsWith(Item.module, BasePackage)
    /\ Item.module \in visited_modules
    /\ stack' = NextMember
    /\ UNCHANGED <<graph, all_classes, visited_modules, entered, cpc, bulk, returned,
                   validator, submitted, outcome, pc, glue_vars>>

\* the member is a module of another package, or neither class nor module
SkipMember ==
    /\ cpc = "collecting"
    /\ AtItem
    /\ \/ Item.kind = "other"
       \/ Item.kind = "module" /\ ~StartsWith(Item.module, BasePackage)
    /\ stack' = NextMember
    /\ UNCHANGED <<graph, all_classes, visited_modules, entered, cpc, bulk, returned,
                   validator, submitted, outcome, pc, glue_vars>>

\* the loop over the members is over: _collect_from_module returns, and
\* the collector returns all_classes when it was the call on the root
ReturnFromModule ==
    /\ cpc = "collecting"
    /\ ~AtItem
    /\ stack' = SubSeq(stack, 1, Len(stack) - 1)
    /\ cpc' = IF Len(stack) = 1 THEN "collected" ELSE "collecting"
    /\ returned' = IF Len(stack) = 1 THEN Append(returned, all_classes) ELSE returned
    /\ UNCHANGED <<graph, all_classes, visited_modules, entered, bulk,
                   validator, submitted, outcome, pc, glue_vars>>

NextCollect ==
    \/ CollectFromRoot
    \/ CollectClass
    \/ EnterSubmodule
    \/ ReturnAtVisited
    \/ SkipMember
    \/ ReturnFromModule

\* the collector is one sequential call: it takes its next step
SpecCollect == InitCollect /\ [][NextCollect]_vars /\ WF_vars(NextCollect)

\* a variant that keeps the visited set of the call before
CallAgainWithSharedVisited ==
    /\ cpc = "collected"
    /\ Len(returned) < MaxCalls
    /\ all_classes' = <<>>
    /\ entered' = <<>>
    /\ cpc' = "ready"
    /\ UNCHANGED <<graph, visited_modules, stack, bulk, returned,
                   validator, submitted, outcome, pc, glue_vars>>

\* the collector is called on the same module once more: all_classes and
\* visited_modules are its locals, made anew
CallAgain ==
    /\ cpc = "collected"
    /\ Len(returned) < MaxCalls
    /\ all_classes' = <<>>
    /\ visited_modules' = {}
    /\ entered' = <<>>
    /\ cpc' = "ready"
    /\ UNCHANGED <<graph, stack, bulk, returned,
                   validator, submitted, outcome, pc, glue_vars>>

NextCollectTwice ==
    \/ NextCollect
    \/ CallAgain

\* calls of the collector on one module graph, one after the other
SpecCollectTwice == InitCollect /\ [][NextCollectTwice]_vars /\ WF_vars(NextCollectTwice)

(***************************************************************************)
(* get_all_activity_methods_from_object.  The object is a class or an      *)
(* instance of it; a member the class defines is a plain def, a            *)
(* staticmethod, a classmethod or an attribute that is no function, and    *)
(* the marker is an attribute of the function (or of the attribute's       *)
(* value).                                                                 *)
(***************************************************************************)
\* the names dir() may list, sorted
MemberNamesSorted == <<"act", "cfg", "run">>

MemberKinds == {"def", "staticmethod", "classmethod", "attribute"}

Member(kind, marked) == [kind |-> kind, marked |-> marked]

ObjectWith(is_instance, members) == [is_instance |-> is_instance, members |-> members]

\* the class of an instance, and of a class taken as the object itself
ClassOfObject(object) == ObjectWith(FALSE, object.members)

\* a class of the validator's model as such an object: its function members
\* are plain defs when they take a receiver and staticmethods otherwise
ObjectOfClass(class) ==
    ObjectWith(FALSE,
               [m \in DOMAIN class.methods |->
                   Member(IF class.methods[m].receiver THEN "def" ELSE "staticmethod",
                          TEMPORAL_ACTIVITY_DEFINITION_SEARCH_ATTRIBUTE
                              \in class.methods[m].markers)])

\* what getattr(object, name) is: a function, a bound method or neither.  A
\* plain def is a function on the class and a bound method on the instance,
\* a classmethod a bound method on both, a staticmethod a function on both
GetAttr(object, name) ==
    LET kind == object.members[name].kind
    IN  CASE kind = "def" -> IF object.is_instance THEN "method" ELSE "function"
          [] kind = "staticmethod" -> "function"
          [] kind = "classmethod" -> "method"
          [] OTHER -> "other"

\* inspect.getmembers(object, predicate): the names of the members that
\* satisfy the predicate, sorted
GetMembersOf(object, accepted) ==
    SelectSeq(MemberNamesSorted,
              LAMBDA n : n \in DOMAIN object.members /\ GetAttr(object, n) \in accepted)

\* a variant with the predicate of the validator, inspect.isfunction alone
ActivityMethodsByIsFunction(object) ==
    SelectSeq(GetMembersOf(object, {"function"}), LAMBDA n : object.members[n].marked)

\* the members that are functions or bound methods and have the marker
get_all_activity_methods_from_object(object) ==
    SelectSeq(GetMembersOf(object, {"function", "method"}),
              LAMBDA n : object.members[n].marked)

\* every class over the member names, and every instance of one
ProbedObjects ==
    { ObjectWith(is_instance, members) :
        <<is_instance, members>> \in
            BOOLEAN \X UNION { [names -> MemberKinds \X BOOLEAN] :
                                  names \in SUBSET SeqRange(MemberNamesSorted) } }

InitProbe ==
    /\ validator = TemporalActivityValidators
    /\ submitted = TypeObject(Class(NoName, EmptyFn, EmptyFn))
    /\ outcome = NotRun
    /\ pc = "idle"
    /\ CollectorIdle
    /\ \E object \in ProbedObjects :
           probe = [pc |-> "ready",
                    object |-> ObjectWith(object.is_instance,
                                          [n \in DOMAIN object.members |->
                                              Member(object.members[n][1],
                                                     object.members[n][2])]),
                    of_object |-> <<>>, of_class |-> <<>>]
    /\ hb = Unused
    /\ mgr = Unused
    /\ wrk = Unused

\* the function is called on the object and on the object's class
GetActivityMethods ==
    /\ probe.pc = "ready"
    /\ probe' = [probe EXCEPT
                    !.pc = "done",
                    !.of_object = get_all_activity_methods_from_object(probe.object),
                    !.of_class = get_all_activity_methods_from_object(
                                     ClassOfObject(probe.object))]
    /\ UNCHANGED <<validator, submitted, outcome, pc, collector_vars, hb, mgr, wrk>>

NextProbe == GetActivityMethods

SpecProbe == InitProbe /\ [][NextProbe]_vars

(***************************************************************************)
(* The bulk validator: bulk_validate_module_activities collects the        *)
(* classes of a module and its submodules, keeps those that have activity  *)
(* methods and validates each, gathering the messages of all of them.      *)
(***************************************************************************)
\* the classes the modules of the graphs hold: A has two activity methods
\* that break several rules each, B one that lacks its return annotation,
\* C no activity method, D a well-formed one, E a well-formed one of its
\* own and one inherited from its parent, F a well-formed one that lacks
\* its opts_<method>, G the same method as B
ClassDef(item) ==
    CASE item.name = "A" ->
             ClassOf(<<"A">>,
                     [m \in MethodNames |->
                         IF m = "act"
                         THEN Decl(Method(ParamList(1, NoAnnotation), TRUE, "str",
                                          {TEMPORAL_ACTIVITY_DEFINITION_SEARCH_ATTRIBUTE}), NoAttr)
                         ELSE Decl(Method(ParamList(3, "Dataclass"), TRUE, NoAnnotation,
                                          {TEMPORAL_ACTIVITY_DEFINITION_SEARCH_ATTRIBUTE}), FullDict)])
      [] item.name = "B" ->
             ClassOf(<<"B">>,
                     [m \in MethodNames |->
                         IF m = "act"
                         THEN Decl(Method(ParamList(2, "Model"), TRUE, NoAnnotation,
                                          {TEMPORAL_ACTIVITY_DEFINITION_SEARCH_ATTRIBUTE}), FullDict)
                         ELSE NoDecl])
      [] item.name = "G" ->
             ClassOf(<<"G">>,
                     [m \in MethodNames |->
                         IF m = "act"
                         THEN Decl(Method(ParamList(2, "Model"), TRUE, NoAnnotation,
                                          {TEMPORAL_ACTIVITY_DEFINITION_SEARCH_ATTRIBUTE}), FullDict)
                         ELSE NoDecl])
      [] item.name = "C" ->
             ClassOf(<<"C">>,
                     [m \in MethodNames |->
                         IF m = "run" THEN Decl(GoodMethod({}), NoAttr) ELSE NoDecl])
      [] item.name = "E" ->
             SubclassObject(<<
                 [name |-> PlainName,
                  decls |-> [m \in MethodNames |->
                      IF m = "act"
                      THEN Decl(GoodMethod({TEMPORAL_ACTIVITY_DEFINITION_SEARCH_ATTRIBUTE}),
                                FullDict)
                      ELSE NoDecl]],
                 [name |-> <<"E">>,
                  decls |-> [m \in MethodNames |->
                      IF m = "run"
                      THEN Decl(GoodMethod({TEMPORAL_ACTIVITY_DEFINITION_SEARCH_ATTRIBUTE}),
                                FullDict)
                      ELSE NoDecl]] >>).cls
      [] item.name = "F" ->
             ClassOf(<<"F">>,
                     [m \in MethodNames |->
                         IF m = "act"
                         THEN Decl(GoodMethod({TEMPORAL_ACTIVITY_DEFINITION_SEARCH_ATTRIBUTE}),
                                   NoAttr)
                         ELSE NoDecl])
      [] OTHER ->
             ClassOf(<<"D">>,
                     [m \in MethodNames |->
                         IF m = "act"
                         THEN Decl(GoodMethod({TEMPORAL_ACTIVITY_DEFINITION_SEARCH_ATTRIBUTE}),
                                   FullDict)
                         ELSE NoDecl])

\* a class of the module, as the object get_all_activity_methods_from_object
\* is given
ObjectOfItem(cls) == ObjectOfClass(ClassDef(cls))

\* a variant that keeps the classes without activity methods
ClassesWithTheirActivityMethods(classes) ==
    [i \in DOMAIN classes |->
        [cls |-> classes[i], methods |-> get_all_activity_methods_from_object(ObjectOfItem(classes[i]))]]

\* the classes that have activity methods, each with them
get_classes_with_activity_methods(classes) ==
    LET with_methods ==
            SelectSeq(classes, LAMBDA cls : Len(get_all_activity_methods_from_object(ObjectOfItem(cls))) > 0)
    IN  [i \in DOMAIN with_methods |->
            [cls |-> with_methods[i],
             methods |-> get_all_activity_methods_from_object(ObjectOfItem(with_methods[i]))]]

\* validator.run_validators(activity_class)
validate_activity_class(activity_class, the_validator) ==
    run_validators(the_validator, TypeObject(ClassDef(activity_class)))

\* a variant that stops at the first class that fails
RECURSIVE BulkErrorsUntilFirstFailure(_, _)
BulkErrorsUntilFirstFailure(collected, the_validator) ==
    IF collected = <<>> THEN Returns(<<>>)
    ELSE LET e == validate_activity_class(Head(collected).cls, the_validator)
         IN  IF e.raised = NoException
             THEN BulkErrorsUntilFirstFailure(Tail(collected), the_validator)
             ELSE IF e.raised = "TemporalUtilsValidationError"
             THEN Returns(e.error_msgs)
             ELSE Raises(e.raised)

\* the loop of the bulk validator: the messages of every class that fails
\* validation, or the exception of another kind that ends the loop
RECURSIVE BulkErrors(_, _)
BulkErrors(collected, the_validator) ==
    IF collected = <<>> THEN Returns(<<>>)
    ELSE LET e == validate_activity_class(Head(collected).cls, the_validator)
         IN  IF e.raised \notin {NoException, "TemporalUtilsValidationError"}
             THEN Raises(e.raised)
             ELSE LET rest == BulkErrors(Tail(collected), the_validator)
                  IN  IF rest.raised # NoException
                      THEN Raises(rest.raised)
                      ELSE Returns(e.error_msgs \o rest.errors)

\* what bulk_validate_module_activities does with the classes collected
bulk_validate_module_activities(classes, the_validator) ==
    LET collected_activity_classes_and_methods == get_classes_with_activity_methods(classes)
        all_error_msgs == BulkErrors(collected_activity_classes_and_methods, the_validator)
    IN  IF all_error_msgs.raised # NoException
        THEN [ raised |-> all_error_msgs.raised, message |-> NoMsg, error_msgs |-> <<>>,
               pairs |-> <<>> ]
        ELSE IF all_error_msgs.errors # <<>>
        THEN [ raised |-> "TemporalUtilsValidationError",
               message |-> Msg("Validation Errors found in module", RootModule, "", <<>>),
               error_msgs |-> all_error_msgs.errors,
               pairs |-> <<>> ]
        ELSE [ raised |-> NoException, message |-> NoMsg, error_msgs |-> <<>>,
               pairs |-> collected_activity_classes_and_methods ]

\* the rest of bulk_validate_module_activities, once the collector returned
BulkValidate ==
    /\ cpc = "collected"
    /\ bulk' = bulk_validate_module_activities(all_classes, validator)
    /\ cpc' = "validated"
    /\ UNCHANGED <<graph, all_classes, visited_modules, stack, entered, returned,
                   validator, submitted, outcome, pc, glue_vars>>

NextBulk ==
    \/ NextCollect
    \/ BulkValidate

\* the members of the root module foo of the modules submitted to the bulk
\* validator, and those of its submodule foo.a
BulkRootMembers ==
    SeqsUpTo({ClassItem("A", Foo), ClassItem("C", Foo), ClassItem("D", Foo),
              ClassItem("F", Foo), ClassItem("G", Foo), ModuleItem(FooA), OtherItem},
             MaxMembers)

BulkSubmoduleMembers ==
    { <<ClassItem("B", FooA)>>,
      <<ClassItem("E", FooA)>>,
      <<ClassItem("F", FooA), ModuleItem(Foo), ClassItem("B", FooA)>>,
      <<ClassItem("C", FooA), ClassItem("E", FooA), ClassItem("D", FooA)>> }

BulkGraphs ==
    { [m \in ModuleNames |->
          CASE m = Foo -> g[1]
            [] m = FooA -> g[2]
            [] OTHER -> <<>>] :
        g \in BulkRootMembers \X BulkSubmoduleMembers }

InitBulk ==
    /\ validator = TemporalActivityValidators
    /\ submitted = TypeObject(Class(NoName, EmptyFn, EmptyFn))
    /\ outcome = NotRun
    /\ pc = "idle"
    /\ graph \in BulkGraphs
    /\ all_classes = <<>>
    /\ visited_modules = {}
    /\ stack = <<>>
    /\ entered = <<>>
    /\ cpc = "ready"
    /\ bulk = NotRun
    /\ returned = <<>>
    /\ GlueIdle

\* bulk_validate_module_activities(module), one sequential call
SpecBulk == InitBulk /\ [][NextBulk]_vars /\ WF_vars(NextBulk)

(***************************************************************************)
(* auto_heartbeater (decorators.py).  The wrapper and the heartbeat task   *)
(* it creates are two tasks of one asyncio event loop: a task runs from    *)
(* one await to the next when the loop takes its wake-up from the ready    *)
(* queue, which is first in, first out.  Task.cancel() marks the task and  *)
(* queues its wake-up; CancelledError is raised at the await the task is   *)
(* suspended at.                                                           *)
(***************************************************************************)
\* loop.call_soon of a task's wake-up (a suspended task has one at most)
Enqueue(ready, task) == IF task \in SeqRange(ready) THEN ready ELSE Append(ready, task)

\* heartbeat_task.cancel(): nothing to do when the task is done
CancelHeartbeatTask(h) ==
    IF h.t \in {"new", "sleeping"}
    THEN [h EXCEPT !.t_must_cancel = TRUE, !.ready = Enqueue(@, "t")]
    ELSE h

\* the wrapper returns or raises
Finish(h, exit) == [h EXCEPT !.w = "finished", !.w_result = exit]

\* a variant of the finally block that cancels the task and does not wait
FinallyWithoutWait(h, exit) ==
    IF h.t = "none" THEN Finish(h, exit) ELSE Finish(CancelHeartbeatTask(h), exit)

\* the finally block, entered with the way the try block ended: the task is
\* cancelled and the wrapper suspends in asyncio.wait([heartbeat_task]),
\* which wakes it once the task is done
Finally(h, exit) ==
    IF h.t = "none"
    THEN Finish(h, exit)
    ELSE LET c == CancelHeartbeatTask(h)
         IN  [c EXCEPT !.w = "in_wait",
                       !.w_exit = exit,
                       !.ready = IF c.t = "done" THEN Enqueue(@, "w") ELSE @]

\* the wrapped functions: whether fn awaits something before it ends, how it
\* ends, and how it ends when CancelledError is raised at its await
WrappedFns ==
    [suspends : BOOLEAN, ends : {"returned", "raised"},
     on_cancel : {"returned", "raised", "cancelled"}]

InitHeartbeater ==
    /\ validator = TemporalActivityValidators
    /\ submitted = TypeObject(Class(NoName, EmptyFn, EmptyFn))
    /\ outcome = NotRun
    /\ pc = "idle"
    /\ CollectorIdle
    /\ probe = Unused
    /\ \E timeout \in BOOLEAN, fn \in WrappedFns :
           hb = [ timeout |-> timeout, fn |-> fn,
                  w |-> "new", w_must_cancel |-> FALSE, w_exit |-> "", w_result |-> "pending",
                  t |-> "none", t_must_cancel |-> FALSE,
                  ready |-> <<"w">>,
                  beats |-> 0, late_beats |-> 0, cancels |-> 0 ]
    /\ mgr = Unused
    /\ wrk = Unused

\* the body of the wrapper from its start to the await of fn, and on: the
\* heartbeat task is created when heartbeat_timeout is truthy
StartWrapper(h) ==
    LET created == IF h.timeout
                   THEN [h EXCEPT !.t = "new", !.ready = Append(@, "t")]
                   ELSE h
    IN  IF h.fn.suspends
        THEN [created EXCEPT !.w = "in_fn"]
        ELSE Finally(created, h.fn.ends)

\* the loop runs the wrapper's task to its next await
RunWrapper ==
    /\ hb.ready # <<>>
    /\ Head(hb.ready) = "w"
    /\ LET h == [hb EXCEPT !.ready = Tail(@), !.w_must_cancel = FALSE]
       IN  hb' = CASE hb.w = "new" /\ hb.w_must_cancel -> Finish(h, "cancelled")
                   [] hb.w = "new" -> StartWrapper(h)
                   [] hb.w = "in_fn" /\ hb.w_must_cancel -> Finally(h, hb.fn.on_cancel)
                   [] hb.w = "in_fn" -> Finally(h, hb.fn.ends)
                   [] hb.w = "in_wait" /\ hb.w_must_cancel -> Finish(h, "cancelled")
                   [] OTHER -> Finish(h, hb.w_exit)
    /\ UNCHANGED <<validator, submitted, outcome, pc, collector_vars, probe, mgr, wrk>>

\* the task is done: asyncio.wait wakes the wrapper that waits for it
HeartbeatTaskDone(h) ==
    [h EXCEPT !.t = "done",
              !.t_must_cancel = FALSE,
              !.ready = IF h.w = "in_wait" THEN Enqueue(@, "w") ELSE @]

\* the loop runs the heartbeat task to its next await: CancelledError ends
\* it, otherwise it starts, or emits a heartbeat, and sleeps
RunHeartbeatTask ==
    /\ hb.ready # <<>>
    /\ Head(hb.ready) = "t"
    /\ LET h == [hb EXCEPT !.ready = Tail(@)]
       IN  hb' = CASE hb.t_must_cancel -> HeartbeatTaskDone(h)
                   [] hb.t = "new" -> [h EXCEPT !.t = "sleeping"]
                   [] OTHER -> [h EXCEPT !.beats = @ + 1,
                                         !.late_beats = IF hb.w = "finished" THEN @ + 1 ELSE @]
    /\ UNCHANGED <<validator, submitted, outcome, pc, collector_vars, probe, mgr, wrk>>

\* asyncio.sleep(delay) of the heartbeat task is over
SleepElapses ==
    /\ hb.t = "sleeping"
    /\ "t" \notin SeqRange(hb.ready)
    /\ hb.beats < MaxBeats
    /\ hb' = [hb EXCEPT !.ready = Append(@, "t")]
    /\ UNCHANGED <<validator, submitted, outcome, pc, collector_vars, probe, mgr, wrk>>

\* what fn awaits is there
FnResumes ==
    /\ hb.w = "in_fn"
    /\ "w" \notin SeqRange(hb.ready)
    /\ hb' = [hb EXCEPT !.ready = Append(@, "w")]
    /\ UNCHANGED <<validator, submitted, outcome, pc, collector_vars, probe, mgr, wrk>>

\* the activity is cancelled: cancel() of the task that runs the wrapper
CancelWrapper ==
    /\ hb.w # "finished"
    /\ hb.cancels < MaxCancels
    /\ hb' = [hb EXCEPT !.w_must_cancel = TRUE,
                        !.ready = Enqueue(@, "w"),
                        !.cancels = @ + 1]
    /\ UNCHANGED <<validator, submitted, outcome, pc, collector_vars, probe, mgr, wrk>>

NextHeartbeater ==
    \/ RunWrapper
    \/ RunHeartbeatTask
    \/ SleepElapses
    \/ FnResumes
    \/ CancelWrapper

SpecHeartbeater == InitHeartbeater /\ [][NextHeartbeater]_vars

(***************************************************************************)
(* _TemporalClientManager (instances.py).  get_client runs under the       *)
(* manager's asyncio.Lock: a call that finds the lock free takes it        *)
(* without suspending, looks the namespace up and either returns the       *)
(* stored client at once or awaits Client.connect with the lock held.      *)
(* The lock is fair: release() wakes the first waiter, and a call that     *)
(* arrives while a waiter is there waits behind it.                        *)
(***************************************************************************)
Callers == 1..NumCallers

Namespaces == {"ns1", "ns2"}

\* host, API key and TLS flag of a call, taken together
ConnectArgs == {"args1", "args2"}

NoClient == [namespace |-> "", args |-> "", by |-> 0]

\* what a call of get_client came to
Pending == [kind |-> "pending", client |-> NoClient]

Raised == [kind |-> "raised", client |-> NoClient]

ReturnedClient(client) == [kind |-> "returned", client |-> client]

\* the Client object that the connect of caller p returns
ClientOf(m, p) ==
    [namespace |-> m.callers[p].namespace, args |-> m.callers[p].args, by |-> p]

\* a variant of the lock that every call finds free
LockAlwaysFree(lock) == TRUE

\* acquire() takes the lock at once when it is not held and nobody waits
LockIsFree(lock) == ~lock.locked /\ lock.waiters = <<>>

\* release(): the lock is free and the first waiter is woken
Release(lock) == [lock EXCEPT !.locked = FALSE, !.woken = (lock.waiters # <<>>)]

\* the body of `async with self._lock`, entered by caller p: the stored
\* client is returned and the lock released, or Client.connect is awaited
EnterBody(m, p) ==
    LET namespace == m.callers[p].namespace
    IN  IF namespace \in DOMAIN m.clients
        THEN [m EXCEPT !.callers[p].pc = "done",
                       !.callers[p].result = ReturnedClient(m.clients[namespace]),
                       !.lock = Release(m.lock)]
        ELSE [m EXCEPT !.callers[p].pc = "connecting",
                       !.connects[namespace] = @ + 1,
                       !.lock.locked = TRUE]

\* a variant that stores an empty entry when the connection fails
AfterFailedConnectStoringNone(m, p) ==
    [m EXCEPT !.callers[p].pc = "done",
              !.callers[p].result = Raised,
              !.clients = [n \in DOMAIN m.clients \cup {m.callers[p].namespace} |->
                              IF n = m.callers[p].namespace THEN NoClient ELSE m.clients[n]],
              !.lock = Release(m.lock)]

\* Client.connect raised: the exception leaves `async with`, which releases
\* the lock, and get_client
AfterFailedConnect(m, p) ==
    [m EXCEPT !.callers[p].pc = "done",
              !.callers[p].result = Raised,
              !.failures[m.callers[p].namespace] = @ + 1,
              !.lock = Release(m.lock)]

InitManager ==
    /\ validator = TemporalActivityValidators
    /\ submitted = TypeObject(Class(NoName, EmptyFn, EmptyFn))
    /\ outcome = NotRun
    /\ pc = "idle"
    /\ CollectorIdle
    /\ probe = Unused
    /\ hb = Unused
    /\ mgr = [ clients |-> <<>>,
               lock |-> [locked |-> FALSE, waiters |-> <<>>, woken |-> FALSE],
               callers |-> [p \in Callers |->
                               [pc |-> "idle", namespace |-> "", args |-> "",
                                result |-> Pending]],
               connects |-> [n \in Namespaces |-> 0],
               failures |-> [n \in Namespaces |-> 0] ]
    /\ wrk = Unused

\* get_client(use_tls, temporal_namespace, temporal_host, temporal_api_key)
\* is called: up to its first await
GetClient(p) ==
    /\ mgr.callers[p].pc = "idle"
    /\ \E namespace \in Namespaces, args \in ConnectArgs :
           LET m == [mgr EXCEPT !.callers[p].namespace = namespace,
                                !.callers[p].args = args]
           IN  mgr' = IF LockIsFree(mgr.lock)
                      THEN EnterBody([m EXCEPT !.lock.locked = TRUE], p)
                      ELSE [m EXCEPT !.callers[p].pc = "waiting",
                                     !.lock.waiters = Append(@, p)]
    /\ UNCHANGED <<validator, submitted, outcome, pc, collector_vars, probe, hb, wrk>>

\* the first waiter, woken by release(), takes the lock and enters the body
AcquireAfterWait(p) ==
    /\ mgr.callers[p].pc = "waiting"
    /\ mgr.lock.woken
    /\ Head(mgr.lock.waiters) = p
    /\ mgr' = EnterBody([mgr EXCEPT !.lock = [locked |-> TRUE,
                                              waiters |-> Tail(mgr.lock.waiters),
                                              woken |-> FALSE]], p)
    /\ UNCHANGED <<validator, submitted, outcome, pc, collector_vars, probe, hb, wrk>>

\* Client.connect returned: the client is stored and returned
ConnectSucceeds(p) ==
    /\ mgr.callers[p].pc = "connecting"
    /\ LET namespace == mgr.callers[p].namespace
           clients == [n \in DOMAIN mgr.clients \cup {namespace} |->
                          IF n = namespace THEN ClientOf(mgr, p) ELSE mgr.clients[n]]
       IN  mgr' = [mgr EXCEPT !.clients = clients,
                              !.callers[p].pc = "done",
                              !.callers[p].result = ReturnedClient(clients[namespace]),
                              !.lock = Release(mgr.lock)]
    /\ UNCHANGED <<validator, submitted, outcome, pc, collector_vars, probe, hb, wrk>>

\* Client.connect raised
ConnectFails(p) ==
    /\ mgr.callers[p].pc = "connecting"
    /\ mgr' = AfterFailedConnect(mgr, p)
    /\ UNCHANGED <<validator, submitted, outcome, pc, collector_vars, probe, hb, wrk>>

NextManager ==
    \E p \in Callers :
        \/ GetClient(p)
        \/ AcquireAfterWait(p)
        \/ ConnectSucceeds(p)
        \/ ConnectFails(p)

SpecManager == InitManager /\ [][NextManager]_vars

(***************************************************************************)
(* run_pydantic_worker_until_complete (worker.py).  The function runs the  *)
(* coroutine init_worker on a new event loop.  One iteration of the loop   *)
(* runs the callbacks that are in the ready queue when it begins; the      *)
(* loop stops at the end of the iteration in which the callback of         *)
(* run_until_complete has run.  A KeyboardInterrupt raised while the loop  *)
(* waits leaves run_until_complete with the task of init_worker pending.   *)
(* Exiting the context of the Worker awaits its shutdown: each await is    *)
(* over at the next iteration ("yield") or when something outside the      *)
(* loop has happened ("io").                                               *)
(***************************************************************************)
ExitAwaits == SeqsUpTo({"yield", "io"}, MaxExitAwaits)

InitWorker ==
    /\ validator = TemporalActivityValidators
    /\ submitted = TypeObject(Class(NoName, EmptyFn, EmptyFn))
    /\ outcome = NotRun
    /\ pc = "idle"
    /\ CollectorIdle
    /\ probe = Unused
    /\ hb = Unused
    /\ mgr = Unused
    /\ \E exit_awaits \in ExitAwaits, start_awaits \in ExitAwaits :
           wrk = [ main |-> "first_run", interrupted |-> FALSE,
                   event_set |-> FALSE,
                   task |-> "new", worker |-> "not started",
                   start_awaits |-> start_awaits, exit_awaits |-> exit_awaits,
                   io_wait |-> FALSE,
                   ready |-> <<"init_worker">>, todo |-> 0, stopping |-> FALSE ]

\* the task of init_worker is done: in the first run_until_complete its done
\* callback stops the loop; the second has removed that callback
TaskDone(w) ==
    [w EXCEPT !.task = "done",
              !.ready = IF w.main = "first_run" THEN Append(@, "stop") ELSE @]

\* Worker.__aexit__, to its next await or to its end
RECURSIVE ExitContext(_)
ExitContext(w) ==
    IF w.exit_awaits = <<>>
    THEN TaskDone([w EXCEPT !.worker = "shut down"])
    ELSE [w EXCEPT !.task = "exiting",
                   !.worker = "shutting down",
                   !.exit_awaits = Tail(@),
                   !.io_wait = (Head(w.exit_awaits) = "io"),
                   !.ready = IF Head(w.exit_awaits) = "yield"
                             THEN Append(@, "init_worker") ELSE @]

\* the body of `async with Worker(...)`: await interrupt_event.wait()
\* returns at once when the event is set
WaitForInterrupt(w) ==
    IF w.event_set
    THEN ExitContext(w)
    ELSE [w EXCEPT !.task = "waiting"]

\* Worker.__aenter__, to its next await or to its end
EnterContext(w) ==
    IF w.start_awaits = <<>>
    THEN WaitForInterrupt([w EXCEPT !.worker = "running"])
    ELSE [w EXCEPT !.task = "entering",
                   !.start_awaits = Tail(@),
                   !.io_wait = (Head(w.start_awaits) = "io"),
                   !.ready = IF Head(w.start_awaits) = "yield"
                             THEN Append(@, "init_worker") ELSE @]

\* interrupt_event.set(): the task that waits for the event is woken
SetEvent(w) ==
    [w EXCEPT !.event_set = TRUE,
              !.ready = IF w.task = "waiting" /\ ~w.event_set
                        THEN Append(@, "init_worker") ELSE @]

\* the loop begins an iteration with the callbacks that are ready
BeginIteration ==
    /\ wrk.main \in {"first_run", "second_run"}
    /\ wrk.todo = 0
    /\ ~wrk.stopping
    /\ wrk.ready # <<>>
    /\ wrk' = [wrk EXCEPT !.todo = Len(wrk.ready)]
    /\ UNCHANGED <<validator, submitted, outcome, pc, collector_vars, probe, hb, mgr>>

\* the loop runs a step of the task of init_worker
RunInitWorker ==
    /\ wrk.todo > 0
    /\ Head(wrk.ready) = "init_worker"
    /\ LET w == [wrk EXCEPT !.ready = Tail(@), !.todo = @ - 1]
       IN  wrk' = CASE wrk.task \in {"new", "entering"} -> EnterContext(w)
                    [] OTHER -> ExitContext(w)
    /\ UNCHANGED <<validator, submitted, outcome, pc, collector_vars, probe, hb, mgr>>

\* the loop runs the task of loop.shutdown_asyncgens(): there are no
\* asynchronous generators, it is done at once and its callback is queued
RunShutdownAsyncgens ==
    /\ wrk.todo > 0
    /\ Head(wrk.ready) = "shutdown_asyncgens"
    /\ wrk' = [wrk EXCEPT !.ready = Append(Tail(@), "stop"), !.todo = @ - 1]
    /\ UNCHANGED <<validator, submitted, outcome, pc, collector_vars, probe, hb, mgr>>

\* the callback of run_until_complete: loop.stop()
RunStopCallback ==
    /\ wrk.todo > 0
    /\ Head(wrk.ready) = "stop"
    /\ wrk' = [wrk EXCEPT !.ready = Tail(@), !.todo = @ - 1, !.stopping = TRUE]
    /\ UNCHANGED <<validator, submitted, outcome, pc, collector_vars, probe, hb, mgr>>

\* the iteration is over and the loop was told to stop: run_until_complete
\* returns, and the function with it
LoopStops ==
    /\ wrk.main \in {"first_run", "second_run"}
    /\ wrk.todo = 0
    /\ wrk.stopping
    /\ wrk' = [wrk EXCEPT !.main = "returned", !.stopping = FALSE]
    /\ UNCHANGED <<validator, submitted, outcome, pc, collector_vars, probe, hb, mgr>>

\* what the task awaits outside the loop has happened
IoCompletes ==
    /\ wrk.main \in {"first_run", "second_run"}
    /\ wrk.todo = 0
    /\ ~wrk.stopping
    /\ wrk.io_wait
    /\ wrk' = [wrk EXCEPT !.io_wait = FALSE, !.ready = Append(@, "init_worker")]
    /\ UNCHANGED <<validator, submitted, outcome, pc, collector_vars, probe, hb, mgr>>

\* interrupt_event is set by other code of the process while the loop runs
EventSetElsewhere ==
    /\ wrk.main = "first_run"
    /\ wrk.todo = 0
    /\ ~wrk.event_set
    /\ wrk' = SetEvent(wrk)
    /\ UNCHANGED <<validator, submitted, outcome, pc, collector_vars, probe, hb, mgr>>

\* KeyboardInterrupt is raised while the loop waits: the except clause sets
\* the event and runs the loop again, until shutdown_asyncgens() is done
KeyboardInterrupt ==
    /\ wrk.main = "first_run"
    /\ wrk.todo = 0
    /\ ~wrk.stopping
    /\ wrk' = [SetEvent(wrk) EXCEPT !.main = "second_run",
                                    !.interrupted = TRUE,
                                    !.ready = Append(@, "shutdown_asyncgens")]
    /\ UNCHANGED <<validator, submitted, outcome, pc, collector_vars, probe, hb, mgr>>

NextWorker ==
    \/ BeginIteration
    \/ RunInitWorker
    \/ RunShutdownAsyncgens
    \/ RunStopCallback
    \/ LoopStops
    \/ IoCompletes
    \/ EventSetElsewhere
    \/ KeyboardInterrupt

SpecWorker == InitWorker /\ [][NextWorker]_vars

(***************************************************************************)
(* The vocabulary of the properties.                                       *)
(***************************************************************************)
Done == pc = "done"

TheClass == ClassToValidate(submitted)

TheMethod(m) == TheClass.methods[m]

\* the methods of the submitted class that carry the validator's marker
MarkedMethods ==
    {m \in DOMAIN TheClass.methods : validator.search_attribute \in TheMethod(m).markers}

Builtin == validator \in BuiltinValidators

\* the serializability predicate: in the model family and not a dataclass
Serializable(a) == a \in {"Model"}

\* opts_<m> is a dict holding every required key with a non-null value
OptsComplete(m) ==
    /\ GenerateOptsName(m) \in DOMAIN TheClass.attrs
    /\ TheClass.attrs[GenerateOptsName(m)].kind = "dict"
    /\ \A key \in SeqRange(validator.opts_keys) :
           /\ key \in TheClass.attrs[GenerateOptsName(m)].present
           /\ key \notin TheClass.attrs[GenerateOptsName(m)].none

WellFormed(m) ==
    /\ TheMethod(m).receiver
    /\ Len(TheMethod(m).params) = 2
    /\ Serializable(TheMethod(m).params[2])
    /\ Serializable(TheMethod(m).returns)
    /\ OptsComplete(m)

Failed == outcome.raised = "TemporalUtilsValidationError"

\* the raised error holds a message of this rule about this method
Names(rule, m) ==
    /\ Failed
    /\ \E i \in DOMAIN outcome.error_msgs :
           /\ outcome.error_msgs[i].via_rule = rule
           /\ outcome.error_msgs[i].method = m

RECURSIVE SeqSum(_)
SeqSum(s) == IF s = <<>> THEN 0 ELSE Head(s) + SeqSum(Tail(s))

(***************************************************************************)
(* C1: a class that has marked methods, each an instance method taking     *)
(* exactly one parameter after the receiver whose type and whose return    *)
(* type are serializable, each with an opts_<method> dict holding every    *)
(* required key non-null, is validated without an error and without a      *)
(* violation.                                                              *)
(***************************************************************************)
C1_WellFormedClassPasses ==
    (/\ Done
     /\ Builtin
     /\ MarkedMethods # {}
     /\ \A m \in MarkedMethods : WellFormed(m))
        => outcome = ReturnedNone

C1_Witness ==
    /\ Done
    /\ Builtin
    /\ Cardinality(MarkedMethods) = 2
    /\ \A m \in MarkedMethods : WellFormed(m)
    /\ outcome = ReturnedNone

(***************************************************************************)
(* C2: the raised error lists every violation every rule returned for      *)
(* every marked method, once each and nothing else, and run_validators     *)
(* returns normally only when no rule returned a violation.                *)
(***************************************************************************)
\* what one rule returns for one method
RuleErrors(rule, m) == CallValidator(rule, validator, TheClass, m).errors

ViolationCount ==
    SeqSum([i \in DOMAIN MethodNamesSorted |->
               IF MethodNamesSorted[i] \in MarkedMethods
               THEN SeqSum([j \in DOMAIN Validators(validator) |->
                               Len(RuleErrors(Validators(validator)[j], MethodNamesSorted[i]))])
               ELSE 0])

C2_EveryViolationReported ==
    (Done /\ Builtin /\ MarkedMethods # {}) =>
        /\ (ViolationCount = 0) = (outcome = ReturnedNone)
        /\ (ViolationCount > 0) = Failed
        /\ Failed =>
            /\ Len(outcome.error_msgs) = ViolationCount
            /\ \A m \in MarkedMethods :
                 \A rule \in SeqRange(Validators(validator)) :
                   \A k \in DOMAIN RuleErrors(rule, m) :
                     Cardinality({i \in DOMAIN outcome.error_msgs :
                                     /\ outcome.error_msgs[i].text = RuleErrors(rule, m)[k].text
                                     /\ outcome.error_msgs[i].method = m
                                     /\ outcome.error_msgs[i].via_rule = rule}) = 1

\* two marked methods, each with violations of several rules
C2_Witness ==
    /\ Done
    /\ Builtin
    /\ Failed
    /\ Cardinality(MarkedMethods) = 2
    /\ \A m \in MarkedMethods :
         Cardinality({outcome.error_msgs[i].via_rule :
                         i \in {j \in DOMAIN outcome.error_msgs : outcome.error_msgs[j].method = m}}) >= 3

(***************************************************************************)
(* C3: a marked method with zero or with two or more caller-supplied       *)
(* parameters makes validation fail with a message of the single-argument  *)
(* rule about it, and a marked method with exactly one caller-supplied     *)
(* parameter gets no message of that rule.                                 *)
(***************************************************************************)
C3_SingleArgRuleByCallerSupplied ==
    (Done /\ Builtin) =>
        \A m \in MarkedMethods :
            IF CallerSupplied(TheMethod(m)) = 1
            THEN ~Names("_validate_method_takes_a_single_arg", m)
            ELSE Names("_validate_method_takes_a_single_arg", m)

\* the same, of the methods whose first parameter is the receiver
C3_InstanceMethodsOnly ==
    (Done /\ Builtin) =>
        \A m \in {x \in MarkedMethods : TheMethod(x).receiver} :
            IF CallerSupplied(TheMethod(m)) = 1
            THEN ~Names("_validate_method_takes_a_single_arg", m)
            ELSE Names("_validate_method_takes_a_single_arg", m)

(***************************************************************************)
(* C4: a marked method whose class has no opts_<method> attribute, or one  *)
(* that is no dict, or a dict lacking a required key or mapping one to     *)
(* None, makes validation fail with a message of the default-options rule  *)
(* about it; with a dict holding every required key non-null the rule      *)
(* gives no message.                                                       *)
(***************************************************************************)
C4_DefaultOptsRule ==
    (Done /\ Builtin) =>
        \A m \in MarkedMethods :
            IF OptsComplete(m)
            THEN ~Names("_validate_method_has_a_default_opts", m)
            ELSE Names("_validate_method_has_a_default_opts", m)

\* a dict that holds every required key, one of them None
C4_Witness ==
    /\ Done
    /\ Builtin
    /\ \E m \in MarkedMethods :
         /\ TheMethod(m).receiver
         /\ GenerateOptsName(m) \in DOMAIN TheClass.attrs
         /\ TheClass.attrs[GenerateOptsName(m)].kind = "dict"
         /\ SeqRange(validator.opts_keys) \subseteq TheClass.attrs[GenerateOptsName(m)].present
         /\ TheClass.attrs[GenerateOptsName(m)].none # {}
         /\ Names("_validate_method_has_a_default_opts", m)

(***************************************************************************)
(* C5: a marked method whose single caller-supplied parameter has a type   *)
(* that fails the serializability predicate (outside the model family, or  *)
(* in it and a dataclass too) makes validation fail with a message of the  *)
(* input-serializable rule about it.                                       *)
(***************************************************************************)
\* an annotation was written and its type fails the predicate
TypeFails(a) == a # NoAnnotation /\ ~Serializable(a)

\* the annotation of the one parameter a caller supplies
SingleArgAnnotation(method) == method.params[IF method.receiver THEN 2 ELSE 1]

C5_InputRuleOnFailingType ==
    (Done /\ Builtin) =>
        \A m \in MarkedMethods :
            (/\ CallerSupplied(TheMethod(m)) = 1
             /\ TypeFails(SingleArgAnnotation(TheMethod(m))))
                => Names("_validate_method_input_arg_is_pydantic_serializable", m)

\* an instance method whose parameter is a model and a dataclass
C5_Witness ==
    /\ Done
    /\ Builtin
    /\ \E m \in MarkedMethods :
         /\ TheMethod(m).receiver
         /\ CallerSupplied(TheMethod(m)) = 1
         /\ SingleArgAnnotation(TheMethod(m)) = "ModelDataclass"
         /\ Names("_validate_method_input_arg_is_pydantic_serializable", m)

(***************************************************************************)
(* C6: a marked method whose return annotation is absent or fails the      *)
(* serializability predicate makes validation fail with a message of the   *)
(* output-serializable rule about it.                                      *)
(***************************************************************************)
C6_OutputRuleOnFailingReturn ==
    (Done /\ Builtin) =>
        \A m \in MarkedMethods :
            (TheMethod(m).returns = NoAnnotation \/ TypeFails(TheMethod(m).returns))
                => Names("_validate_method_output_is_pydantic_serializable", m)

\* a method without a return annotation, and nothing else wrong
C6_Witness ==
    /\ Done
    /\ Builtin
    /\ \E m \in MarkedMethods :
         /\ TheMethod(m).receiver
         /\ TheMethod(m).returns = NoAnnotation
         /\ Names("_validate_method_output_is_pydantic_serializable", m)
         /\ Len(outcome.error_msgs) = 1

(***************************************************************************)
(* C7: the input-serializable rule tells three violations apart: a         *)
(* parameter without a type hint, a type outside the model family, and a   *)
(* type that is a model and a dataclass each get a message that differs    *)
(* from the other two.                                                     *)
(***************************************************************************)
\* the marked instance methods that have a parameter after the receiver
WithInputArg == {m \in MarkedMethods : TheMethod(m).receiver /\ Len(TheMethod(m).params) >= 2}

InputAnnotation(m) == TheMethod(m).params[2]

\* the text of the message a rule gave about a method, "" when it gave none
TextOf(rule, m) ==
    IF Names(rule, m)
    THEN LET i == CHOOSE j \in DOMAIN outcome.error_msgs :
                      /\ outcome.error_msgs[j].via_rule = rule
                      /\ outcome.error_msgs[j].method = m
         IN  outcome.error_msgs[i].text
    ELSE ""

InputText(m) == TextOf("_validate_method_input_arg_is_pydantic_serializable", m)

InputCategory(m) ==
    CASE InputAnnotation(m) = NoAnnotation -> "no type hint"
      [] InputAnnotation(m) \in {"str", "Dataclass"} -> "wrong family"
      [] InputAnnotation(m) = "ModelDataclass" -> "ambiguous dual family"
      [] OTHER -> "other"

KindOf(text) ==
    CASE text = "" -> "pass"
      [] text \in { "requires a type hint for its input argument",
                    "does not have a type hint for its return value" } -> "missing type hint"
      [] text \in { "input argument can't be a dataclass & must be a child of pydantic's BaseModel",
                    "return value can't be a dataclass and must be a child of pydantic's BaseModel" }
             -> "failed predicate"
      [] OTHER -> "no input"

InputKind(m) == KindOf(InputText(m))

OutputKind(m) == KindOf(TextOf("_validate_method_output_is_pydantic_serializable", m))

C8_SameOutcomeKind ==
    (Done /\ Builtin) =>
        \A m \in WithInputArg :
            (Len(TheMethod(m).params) = 2 /\ InputAnnotation(m) = TheMethod(m).returns)
                => InputKind(m) = OutputKind(m)

\* the same, of the annotations that are written
C8_SameOutcomeKindWhenAnnotated ==
    (Done /\ Builtin) =>
        \A m \in WithInputArg :
            (/\ Len(TheMethod(m).params) = 2
             /\ InputAnnotation(m) = TheMethod(m).returns
             /\ InputAnnotation(m) # NoAnnotation)
                => InputKind(m) = OutputKind(m)

(***************************************************************************)
(* C9: a class without a marked method fails validation with the error     *)
(* that names the validator's marker attribute, unless its name contains   *)
(* "base" in any letter case: then validation succeeds.                    *)
(***************************************************************************)
\* the names of ClassNames that hold b-a-s-e in a row, in any case:
\* "BaseActs" and "MyBASE" ("Acts" and "B_ase" do not)
BaseNamed ==
    { <<"B", "a", "s", "e", "A", "c", "t", "s">>,
      <<"M", "y", "B", "A", "S", "E">> }

C9_NoMarkedMethods ==
    (/\ Done
     /\ Validators(validator) # <<>>
     /\ validator.search_attribute # NotImplemented
     /\ MarkedMethods = {})
        => IF TheClass.name \in BaseNamed
           THEN outcome = ReturnedNone
           ELSE /\ Failed
                /\ Len(outcome.error_msgs) = 1
                /\ outcome.error_msgs[1].text
                       = "does not have any methods annotated with the search attribute"
                /\ outcome.error_msgs[1].detail = <<validator.search_attribute>>
                /\ outcome.error_msgs[1].cls = TheClass.name

\* a class named with the token in upper case passes without marked methods
C9_Witness ==
    /\ Done
    /\ Builtin
    /\ MarkedMethods = {}
    /\ TheClass.name = <<"M", "y", "B", "A", "S", "E">>
    /\ outcome = ReturnedNone

(***************************************************************************)
(* C10: a validator without any rule makes run_validators fail with the    *)
(* validation error that says no validators were found, whatever class is  *)
(* submitted.                                                              *)
(***************************************************************************)
C10_NoRulesRaisesValidationError ==
    (Done /\ Validators(validator) = <<>>) =>
        /\ Failed
        /\ outcome.message.text = "No validators found"

(***************************************************************************)
(* C11: a validator that has rules and does not override                   *)
(* get_search_attribute fails with NotImplementedError on every class,     *)
(* a well-formed one included: no validation error is raised and the       *)
(* class is not accepted.                                                  *)
(***************************************************************************)
C11_MissingSearchAttributeNotImplemented ==
    (/\ Done
     /\ Validators(validator) # <<>>
     /\ validator.search_attribute = NotImplemented)
        => outcome = OtherException("NotImplementedError")

\* the base validator on a class whose one activity method is well formed
C11_Witness ==
    /\ Done
    /\ validator = BaseValidator
    /\ DOMAIN TheClass.methods = {"act"}
    /\ TheMethod("act") = GoodMethod({TEMPORAL_ACTIVITY_DEFINITION_SEARCH_ATTRIBUTE})
    /\ TheClass.attrs[GenerateOptsName("act")] = FullDict
    /\ outcome.raised = "NotImplementedError"

OtherValidator(v) ==
    IF v = TemporalActivityValidators THEN TemporalWorkflowValidators
    ELSE TemporalActivityValidators

\* the i-th required key of one validator for the i-th of the other
OtherKey(key) ==
    CASE key = "start_to_close_timeout" -> "execution_timeout"
      [] key = "retry_policy" -> "run_timeout"
      [] key = "execution_timeout" -> "start_to_close_timeout"
      [] key = "run_timeout" -> "retry_policy"

OtherMarker(marker) ==
    IF marker = TEMPORAL_ACTIVITY_DEFINITION_SEARCH_ATTRIBUTE
    THEN WorkflowRunSearchAttribute
    ELSE TEMPORAL_ACTIVITY_DEFINITION_SEARCH_ATTRIBUTE

ForOtherValidator(cls) ==
    Class(cls.name,
          [m \in DOMAIN cls.methods |->
              [cls.methods[m] EXCEPT !.markers = {OtherMarker(k) : k \in @}]],
          [n \in DOMAIN cls.attrs |->
              [cls.attrs[n] EXCEPT !.present = {OtherKey(k) : k \in @},
                                   !.none = {OtherKey(k) : k \in @}]])

\* a message without what names the validator: its class name in the tag,
\* and the keys or marker it lists replaced by the other validator's
AsOfOtherValidator(msg) ==
    [msg EXCEPT !.via_class = IF @ = "" THEN "" ELSE OtherValidator(validator).name,
                !.detail = [i \in DOMAIN @ |->
                               IF @[i] \in OptKeys THEN OtherKey(@[i]) ELSE OtherMarker(@[i])]]

OutcomeAsOfOtherValidator ==
    [ raised |-> outcome.raised,
      message |-> AsOfOtherValidator(outcome.message),
      error_msgs |-> [i \in DOMAIN outcome.error_msgs |->
                         AsOfOtherValidator(outcome.error_msgs[i])] ]

C14_PoliciesDifferInConfigurationOnly ==
    (Done /\ Builtin /\ submitted.is_type) =>
        run_validators(OtherValidator(validator), TypeObject(ForOtherValidator(TheClass)))
            = OutcomeAsOfOtherValidator

\* a workflow class with violations of several rules, one about its keys
C14_Witness ==
    /\ Done
    /\ validator = TemporalWorkflowValidators
    /\ submitted.is_type
    /\ Failed
    /\ \E i, j \in DOMAIN outcome.error_msgs :
         /\ outcome.error_msgs[i].detail = WorkflowOptsKeys
         /\ outcome.error_msgs[j].via_rule = "_validate_method_output_is_pydantic_serializable"
    /\ run_validators(TemporalActivityValidators, TypeObject(ForOtherValidator(TheClass)))
           = OutcomeAsOfOtherValidator

(***************************************************************************)
(* C15: a rule added to a validator subclass as a _validate_* method with  *)
(* the signature of the existing rules is run on every marked method of    *)
(* the validated class, and every violation it returns is in the raised    *)
(* error.                                                                  *)
(***************************************************************************)
HasCustomRule == "_validate_my_new_requirement" \in validator.attrs

C15_CustomRuleIsRun ==
    (Done /\ HasCustomRule /\ validator.custom.num_params = 4 /\ MarkedMethods # {}) =>
        /\ outcome.raised \in {NoException, "TemporalUtilsValidationError"}
        /\ \A m \in MarkedMethods :
               (m \in validator.custom.rejects) = Names("_validate_my_new_requirement", m)

\* the same, of the rules written as plain methods
C15_PlainMethodRuleIsRun ==
    (/\ Done
     /\ HasCustomRule
     /\ validator.custom.num_params = 4
     /\ ~validator.custom.static
     /\ MarkedMethods # {}) =>
        /\ outcome.raised \in {NoException, "TemporalUtilsValidationError"}
        /\ \A m \in MarkedMethods :
               (m \in validator.custom.rejects) = Names("_validate_my_new_requirement", m)

(***************************************************************************)
(* C16: in a chain of a base-named class without marked methods, a         *)
(* subclass that introduces a well-formed marked method and a subclass of  *)
(* that one that introduces another, validation succeeds at each class,    *)
(* and the validation of a subclass runs the rules on the marked methods   *)
(* it inherits as on its own, also when it declares none itself.           *)
(***************************************************************************)
HasAncestry == "mro" \in DOMAIN submitted

GoodDecl == Decl(GoodMethod({TEMPORAL_ACTIVITY_DEFINITION_SEARCH_ATTRIBUTE}), FullDict)

\* the nearest class body of the chain that defines this name marks it
InheritsMarked(mro, m) ==
    LET def_at == Nearest({i \in DOMAIN mro : mro[i].decls[m].has})
    IN  /\ def_at # 0
        /\ validator.search_attribute \in mro[def_at].decls[m].method.markers

\* the three-level chain, or its first classes: a base-named class without
\* methods, then a class introducing "act", then a class introducing "run"
ThreeLevelChain ==
    /\ Len(submitted.mro) <= 3
    /\ Contains(BaseToken, Lower(submitted.mro[1].name))
    /\ \A m \in MethodNames : submitted.mro[1].decls[m] = NoDecl
    /\ Len(submitted.mro) >= 2 =>
           /\ submitted.mro[2].decls["act"] = GoodDecl
           /\ submitted.mro[2].decls["run"] = NoDecl
    /\ Len(submitted.mro) >= 3 =>
           /\ submitted.mro[3].decls["act"] = NoDecl
           /\ submitted.mro[3].decls["run"] = GoodDecl

C16_InheritedMethodsAreValidated ==
    (Done /\ HasAncestry) =>
        /\ ThreeLevelChain => outcome = ReturnedNone
        /\ \A m \in MethodNames :
               InheritsMarked(submitted.mro, m)
                   => /\ m \in MarkedMethods
                      /\ \A rule \in SeqRange(Validators(validator)) :
                             (RuleErrors(rule, m) # <<>>) = Names(rule, m)

\* the last class of the three-level chain: both methods validated, no violation
C16_Witness ==
    /\ Done
    /\ HasAncestry
    /\ Len(submitted.mro) = 3
    /\ ThreeLevelChain
    /\ MarkedMethods = {"act", "run"}
    /\ outcome = ReturnedNone

(***************************************************************************)
(* The vocabulary of the properties of the collector.                      *)
(***************************************************************************)
Collected == cpc = "collected"

\* the name belongs to the top-level package of the root module
InRootPackage(module_name) == SplitFirst(module_name) = SplitFirst(RootModule)

Members(module_name) == SeqRange(graph[module_name])

\* the modules a set of modules holds as members, of the root's package
SubmodulesOf(modules) ==
    { it.module : it \in { x \in UNION {Members(m) : m \in modules} :
                               x.kind = "module" /\ InRootPackage(x.module) } }

\* the root module and the modules reachable from it through such members
RECURSIVE ReachableFrom(_)
ReachableFrom(modules) ==
    IF SubmodulesOf(modules) \subseteq modules THEN modules
    ELSE ReachableFrom(modules \cup SubmodulesOf(modules))

Reachable == ReachableFrom({RootModule})

(***************************************************************************)
(* C17: the collector returns every class that is a member of the root     *)
(* module or of a module reachable from it through submodule members of    *)
(* the root's top-level package.                                           *)
(***************************************************************************)
C17_EveryMemberClassReturned ==
    Collected =>
        \A m \in Reachable :
            \A it \in Members(m) :
                it.kind = "class" => it \in SeqRange(all_classes)

\* C17, as the code has it: the collector returns every class of the root's
\* top-level package that is a member of the root module or of a module
\* reachable from it through submodule members of that package.
C17_EveryPackageClassReturned ==
    Collected =>
        \A m \in Reachable :
            \A it \in Members(m) :
                (it.kind = "class" /\ InRootPackage(it.module))
                    => it \in SeqRange(all_classes)

\* a class found in a submodule and not in the root module
C17_Witness ==
    /\ Collected
    /\ ClassItem("B", FooA) \notin Members(RootModule)
    /\ ClassItem("B", FooA) \in Members(FooA)
    /\ FooA \in Reachable
    /\ ClassItem("B", FooA) \in SeqRange(all_classes)

(***************************************************************************)
(* C18: the collector terminates on every module graph, cycles included    *)
(* (a module holding a descendant that holds it, a module holding          *)
(* itself), and goes through the members of each module at most once.      *)
(***************************************************************************)
EnteredAtMostOnce ==
    \A i, j \in DOMAIN entered : entered[i] = entered[j] => i = j

C18_TerminatesEnteringOnce == [](EnteredAtMostOnce) /\ <>Collected

\* the root holds foo.a, which holds the root and itself: both were met
\* again and the collector returned
C18_Witness ==
    /\ Collected
    /\ ModuleItem(FooA) \in Members(Foo)
    /\ ModuleItem(Foo) \in Members(FooA)
    /\ ModuleItem(FooA) \in Members(FooA)
    /\ entered = <<Foo, FooA>>

(***************************************************************************)
(* C19: the returned list holds each class at most once, also a class      *)
(* bound to two names of one module or a member of two visited modules.    *)
(***************************************************************************)
C19_EachClassOnce ==
    Collected =>
        \A i, j \in DOMAIN all_classes : all_classes[i] = all_classes[j] => i = j

(***************************************************************************)
(* C20: every class returned and every module entered belongs to the       *)
(* top-level package of the root module: what is of another top-level      *)
(* package and imported into a visited module is not returned or entered.  *)
(***************************************************************************)
C20_OnlyRootPackage ==
    /\ \A i \in DOMAIN all_classes : InRootPackage(all_classes[i].module)
    /\ \A i \in DOMAIN entered : InRootPackage(entered[i])

(***************************************************************************)
(* C13: the final list of violations is in one canonical order: by the     *)
(* order the classes were discovered in, then by the order of the rules    *)
(* within a class, then by the order the methods are enumerated in.        *)
(***************************************************************************)
Validated == cpc = "validated"

\* the messages of one rule about one method of a collected class, tagged
TaggedErrors(cls, rule, m) ==
    AddContext(CallValidator(rule, validator, ClassDef(cls), m).errors, validator, rule)

\* the collected classes that have activity methods, in discovery order
Discovered == get_classes_with_activity_methods(all_classes)

\* class by class, rule by rule, method by method
ByClassRuleMethod ==
    Flatten([c \in DOMAIN Discovered |->
        Flatten([r \in DOMAIN Validators(validator) |->
            Flatten([k \in DOMAIN Discovered[c].methods |->
                TaggedErrors(Discovered[c].cls, Validators(validator)[r],
                             Discovered[c].methods[k])])])])

\* class by class, method by method, rule by rule
ByClassMethodRule ==
    Flatten([c \in DOMAIN Discovered |->
        Flatten([k \in DOMAIN Discovered[c].methods |->
            Flatten([r \in DOMAIN Validators(validator) |->
                TaggedErrors(Discovered[c].cls, Validators(validator)[r],
                             Discovered[c].methods[k])])])])

C13_OrderByClassRuleMethod ==
    Validated => bulk.error_msgs = ByClassRuleMethod

\* C13, as the code has it: the final list is ordered by the order the
\* classes were discovered in, then by the order the methods of a class
\* are enumerated in, then by the order of the rules for a method.
C13_OrderByClassMethodRule ==
    Validated => bulk.error_msgs = ByClassMethodRule

\* two failing classes, the first with two methods that break several rules
C13_Witness ==
    /\ Validated
    /\ Len(Discovered) = 2
    /\ Discovered[1].cls = ClassItem("A", Foo)
    /\ Discovered[2].cls = ClassItem("B", FooA)
    /\ Len(bulk.error_msgs) >= 5
    /\ bulk.error_msgs = ByClassMethodRule

(***************************************************************************)
(* C21: the list the collector returns is in the order of a depth-first    *)
(* traversal: the members of a module in the order they are enumerated,    *)
(* the classes found in a submodule at the place where the submodule is    *)
(* enumerated.                                                             *)
(***************************************************************************)
\* the classes found from member i of a module on, depth first, and the
\* modules seen after that, given those seen before
RECURSIVE DepthFirst(_, _, _)
DepthFirst(module_name, i, seen) ==
    IF i > Len(graph[module_name])
    THEN [found |-> <<>>, seen |-> seen]
    ELSE LET member == graph[module_name][i]
             of_package == StartsWith(member.module, SplitFirst(module_name))
         IN  IF member.kind = "module" /\ of_package /\ member.module \notin seen
             THEN LET below == DepthFirst(member.module, 1, seen \cup {member.module})
                      after == DepthFirst(module_name, i + 1, below.seen)
                  IN  [found |-> below.found \o after.found, seen |-> after.seen]
             ELSE LET after == DepthFirst(module_name, i + 1, seen)
                  IN  [found |-> (IF member.kind = "class" /\ of_package
                                  THEN <<member>> ELSE <<>>) \o after.found,
                       seen |-> after.seen]

DepthFirstFromRoot == DepthFirst(RootModule, 1, {RootModule}).found

IsPrefix(s, t) == Len(s) <= Len(t) /\ SubSeq(t, 1, Len(s)) = s

C21_DepthFirstDiscoveryOrder ==
    /\ IsPrefix(all_classes, DepthFirstFromRoot)
    /\ Collected => all_classes = DepthFirstFromRoot

\* the class of the submodule, enumerated first, comes before the root's own
C21_Witness ==
    /\ Collected
    /\ graph[Foo] = <<ModuleItem(FooA), ClassItem("A", Foo)>>
    /\ graph[FooA] = <<ClassItem("B", FooA), ModuleItem(Foo)>>
    /\ all_classes = <<ClassItem("B", FooA), ClassItem("A", Foo)>>

(***************************************************************************)
(* C22: two calls of the collector on the same module graph return the     *)
(* same set of classes, import cycles or not: the visited set of the       *)
(* first call has no effect on the second.                                 *)
(***************************************************************************)
C22_SameClassesOnSecondCall ==
    \A i, j \in DOMAIN returned :
        /\ SeqRange(returned[i]) = SeqRange(returned[j])
        /\ returned[i] = returned[j]

\* a second call on modules that import each other, with classes in both
C22_Witness ==
    /\ Len(returned) = 2
    /\ graph[Foo] = <<ClassItem("A", Foo), ModuleItem(FooA)>>
    /\ graph[FooA] = <<ModuleItem(Foo), ClassItem("B", FooA)>>
    /\ returned[2] = <<ClassItem("A", Foo), ClassItem("B", FooA)>>

(***************************************************************************)
(* C23: the bulk validator validates every collected class that has a      *)
(* marked method and no other; it goes on after a class fails, and when    *)
(* any class fails it raises one error whose message list is the message   *)
(* lists of the failing classes joined in class order (one message for a   *)
(* class whose only defect is one missing opts_<method>).                  *)
(***************************************************************************)
\* the marked methods of a collected class, own or inherited, by name
MarkedMethodsOf(cls) ==
    SelectSeq(MethodNamesSorted,
              LAMBDA m : /\ m \in DOMAIN ClassDef(cls).methods
                         /\ TEMPORAL_ACTIVITY_DEFINITION_SEARCH_ATTRIBUTE
                                \in ClassDef(cls).methods[m].markers)

WithMarkedMethods == SelectSeq(all_classes, LAMBDA cls : MarkedMethodsOf(cls) # <<>>)

\* what the validation of the class alone gives
AloneOutcome(cls) == run_validators(validator, TypeObject(ClassDef(cls)))

FailsAlone(cls) == AloneOutcome(cls).raised # NoException

MessagesOfFailing ==
    Flatten([i \in DOMAIN WithMarkedMethods |->
                IF FailsAlone(WithMarkedMethods[i])
                THEN AloneOutcome(WithMarkedMethods[i]).error_msgs
                ELSE <<>>])

OnlyLacksOpts(cls) == cls.name = "F"

C23_AllFailingClassesReported ==
    Validated =>
        /\ (bulk.raised = "TemporalUtilsValidationError")
               <=> (\E i \in DOMAIN WithMarkedMethods : FailsAlone(WithMarkedMethods[i]))
        /\ bulk.raised \in {NoException, "TemporalUtilsValidationError"}
        /\ bulk.error_msgs = MessagesOfFailing
        /\ \A i \in DOMAIN WithMarkedMethods :
               OnlyLacksOpts(WithMarkedMethods[i])
                   => Len(AloneOutcome(WithMarkedMethods[i]).error_msgs) = 1

\* a class that lacks opts_act only, then a class without marked methods
\* passed over, then another failing class: one message, then the other's
C23_Witness ==
    /\ Validated
    /\ graph[Foo] = <<ClassItem("F", Foo), ModuleItem(FooA)>>
    /\ graph[FooA] = <<ClassItem("C", FooA), ClassItem("E", FooA), ClassItem("D", FooA)>>
       \/ graph[FooA] = <<ClassItem("F", FooA), ModuleItem(Foo), ClassItem("B", FooA)>>
    /\ bulk.raised = "TemporalUtilsValidationError"
    /\ Len(bulk.error_msgs) \in {1, 3}
    /\ bulk.error_msgs[1].text
           = "created Temporal activity without providing default options for executing it"

(***************************************************************************)
(* C24: when no class has a violation the bulk validator returns the       *)
(* collected classes that have a marked method, own or inherited, each     *)
(* with all its marked methods, in collection order; a class without       *)
(* marked methods is not in the result.                                    *)
(***************************************************************************)
NoViolation ==
    \A i \in DOMAIN WithMarkedMethods : ~FailsAlone(WithMarkedMethods[i])

C24_ReturnsClassesWithMarkedMethods ==
    (Validated /\ NoViolation) =>
        /\ bulk.raised = NoException
        /\ bulk.pairs = [i \in DOMAIN WithMarkedMethods |->
                            [cls |-> WithMarkedMethods[i],
                             methods |-> MarkedMethodsOf(WithMarkedMethods[i])]]
        /\ \A i \in DOMAIN bulk.pairs : bulk.pairs[i].methods # <<>>

\* the class without marked methods is left out, the class with an inherited
\* marked method is returned with both its methods
C24_Witness ==
    /\ Validated
    /\ NoViolation
    /\ all_classes = <<ClassItem("D", Foo), ClassItem("C", FooA), ClassItem("E", FooA),
                       ClassItem("D", FooA)>>
    /\ bulk.pairs = << [cls |-> ClassItem("D", Foo), methods |-> <<"act">>],
                       [cls |-> ClassItem("E", FooA), methods |-> <<"act", "run">>],
                       [cls |-> ClassItem("D", FooA), methods |-> <<"act">>] >>

(***************************************************************************)
(* C25: every message of the error the bulk validator raises identifies    *)
(* the class that produced it: the messages of two failing classes with    *)
(* equally named methods differ.                                           *)
(***************************************************************************)
\* for every message of the list, the name of the class it comes from
ProducerNames ==
    Flatten([i \in DOMAIN WithMarkedMethods |->
                IF FailsAlone(WithMarkedMethods[i])
                THEN [k \in DOMAIN AloneOutcome(WithMarkedMethods[i]).error_msgs |->
                         ClassDef(WithMarkedMethods[i]).name]
                ELSE <<>>])

C25_MessagesTellClassesApart ==
    (Validated /\ bulk.raised = "TemporalUtilsValidationError") =>
        \A k, l \in DOMAIN bulk.error_msgs :
            ProducerNames[k] # ProducerNames[l] => bulk.error_msgs[k] # bulk.error_msgs[l]

(***************************************************************************)
(* C26: get_all_activity_methods_from_object returns the members of the    *)
(* object that are functions or bound methods and carry the activity       *)
(* marker, no unmarked member, in the order the members are enumerated;    *)
(* on an instance and on its class it returns the same methods, by name    *)
(* and in the same order.                                                  *)
(***************************************************************************)
Probed == probe.pc = "done"

\* what the class body makes callable through the object
IsMethodOfObject(n) ==
    /\ n \in DOMAIN probe.object.members
    /\ probe.object.members[n].kind \in {"def", "staticmethod", "classmethod"}

C26_MarkedMethodsOfObject ==
    Probed =>
        /\ probe.of_object
               = SelectSeq(MemberNamesSorted,
                           LAMBDA n : IsMethodOfObject(n) /\ probe.object.members[n].marked)
        /\ probe.of_object = probe.of_class

\* an instance with a marked def and a marked classmethod, and a marked
\* attribute that is no function
C26_Witness ==
    /\ Probed
    /\ probe.object = ObjectWith(TRUE, [n \in SeqRange(MemberNamesSorted) |->
                                           CASE n = "act" -> Member("classmethod", TRUE)
                                             [] n = "cfg" -> Member("attribute", TRUE)
                                             [] OTHER -> Member("def", TRUE)])
    /\ probe.of_object = <<"act", "run">>
    /\ probe.of_class = <<"act", "run">>

(***************************************************************************)
(* C27: the wrapper of auto_heartbeater starts a heartbeat task only when  *)
(* the activity has a heartbeat timeout; when the wrapped function ends,   *)
(* by returning, raising or cancellation, the task is cancelled and is     *)
(* done before the wrapper ends, and no heartbeat is emitted after that.   *)
(***************************************************************************)
C27_HeartbeatTaskDoneBeforeWrapperEnds ==
    /\ hb.t # "none" => hb.timeout
    /\ hb.w = "finished" => hb.t \in {"none", "done"}
    /\ hb.late_beats = 0

\* the wrapper was cancelled while fn ran, after a heartbeat, and has ended
C27_Witness ==
    /\ hb.w = "finished"
    /\ hb.timeout
    /\ hb.t = "done"
    /\ hb.beats > 0
    /\ hb.cancels > 0
    /\ hb.w_result = "cancelled"

(***************************************************************************)
(* C28: under any interleaving of concurrent get_client calls, at most     *)
(* one connection is made for a namespace that was connected, and every    *)
(* call for the namespace returns the one client the first successful      *)
(* call stored, whatever host, API key or TLS arguments it passes.         *)
(***************************************************************************)
CallsDone(namespace) ==
    {p \in Callers : mgr.callers[p].pc = "done" /\ mgr.callers[p].namespace = namespace}

Connecting(namespace) ==
    {p \in Callers : mgr.callers[p].pc = "connecting" /\ mgr.callers[p].namespace = namespace}

Returned(namespace) == {p \in CallsDone(namespace) : mgr.callers[p].result.kind = "returned"}

C28_OneClientPerNamespace ==
    \A namespace \in Namespaces :
        \* connections that did not fail: one at most, none beside a stored client
        /\ mgr.connects[namespace] - mgr.failures[namespace] <= 1
        /\ namespace \in DOMAIN mgr.clients => Connecting(namespace) = {}
        /\ \A p \in Returned(namespace) :
               /\ namespace \in DOMAIN mgr.clients
               /\ mgr.callers[p].result.client = mgr.clients[namespace]
               /\ mgr.callers[mgr.clients[namespace].by].result.client = mgr.clients[namespace]

\* all the calls were for one namespace, with different arguments, while the
\* first was connecting: one connection, one client for all
C28_Witness ==
    /\ \A p \in Callers : mgr.callers[p].pc = "done" /\ mgr.callers[p].namespace = "ns1"
    /\ mgr.connects["ns1"] = 1
    /\ \E p, q \in Callers :
           /\ mgr.callers[p].args # mgr.callers[q].args
           /\ mgr.callers[p].result = mgr.callers[q].result
           /\ mgr.callers[p].result = ReturnedClient(mgr.clients["ns1"])

(***************************************************************************)
(* C29: when Client.connect raises in get_client the caller gets the       *)
(* exception, the map of clients is as before, the lock is released, and   *)
(* a later call for the namespace connects again: it returns no stale or   *)
(* missing entry.                                                          *)
(***************************************************************************)
ConnectRaisedFor(p) ==
    mgr.callers[p].pc = "connecting" /\ mgr'.callers[p].result = Raised

ClientsAreConnected ==
    /\ \A namespace \in DOMAIN mgr.clients :
           /\ mgr.clients[namespace] # NoClient
           /\ mgr.clients[namespace].namespace = namespace
    /\ \A p \in Callers :
           mgr.callers[p].pc = "done" /\ mgr.callers[p].result # Raised
               => /\ mgr.callers[p].result.kind = "returned"
                  /\ mgr.callers[p].result.client # NoClient
                  /\ mgr.callers[p].result.client.namespace = mgr.callers[p].namespace
    \* a call that holds the lock is connecting: the namespace has no entry
    /\ \A p \in Callers :
           mgr.callers[p].pc = "connecting"
               => mgr.callers[p].namespace \notin DOMAIN mgr.clients

C29_FailedConnectLeavesNoTrace ==
    /\ []ClientsAreConnected
    /\ [][\A p \in Callers :
              ConnectRaisedFor(p)
                  => /\ mgr'.callers[p].pc = "done"
                     /\ mgr'.clients = mgr.clients
                     /\ ~mgr'.lock.locked]_vars

\* a call failed to connect and a later call for the namespace connected
C29_Witness ==
    \E p, q \in Callers :
        /\ mgr.callers[p].pc = "done" /\ mgr.callers[p].result = Raised
        /\ mgr.callers[q].pc = "done" /\ mgr.callers[q].result.kind = "returned"
        /\ mgr.callers[p].namespace = mgr.callers[q].namespace
        /\ mgr.callers[q].result.client.by = q
        /\ mgr.failures[mgr.callers[p].namespace] = 1
        /\ mgr.connects[mgr.callers[p].namespace] = 2
        /\ ~mgr.lock.locked

(***************************************************************************)
(* C30: run_pydantic_worker_until_complete keeps the worker running until  *)
(* interrupt_event is set; when a KeyboardInterrupt arrives the event is   *)
(* set and the context of the worker is exited, the worker shut down,      *)
(* before the function returns.                                            *)
(***************************************************************************)
C30_WorkerShutDownBeforeReturn ==
    /\ wrk.worker \in {"shutting down", "shut down"} => wrk.event_set
    /\ (wrk.main = "returned" /\ wrk.interrupted)
           => /\ wrk.event_set
              /\ wrk.worker = "shut down"

====
